---- MODULE Spec2Model ----
(***************************************************************************)
(* A model of the EEG feed-in tariff service: the tariff lookup            *)
(* (packages/core/services/tariff-lookup.ts), the GET /tariff handler      *)
(* (packages/functions/api/api-handler.ts) and the epilot webhook handler  *)
(* (packages/functions/webhook/webhook-handler.ts).                        *)
(*                                                                         *)
(* Conventions.  An optional value (a field that may be undefined) is a    *)
(* sequence of length 0 or 1.  A text is a sequence of one-character       *)
(* strings.  An ISO date "YYYY-MM-DD" is the triple <<YYYY, MM, DD>>; the   *)
(* string comparison of two such zero-padded texts is the lexicographic    *)
(* comparison of the triples.  A JavaScript number is an integer, NaN is   *)
(* the absent number.                                                      *)
(***************************************************************************)
EXTENDS Integers, Sequences, FiniteSets, TLC

VARIABLES store, request, response, sends, effects

vars == <<store, request, response, sends, effects>>

(***************************************************************************)
(* Optional values and JavaScript truthiness.                              *)
(***************************************************************************)
None == <<>>

Some(x) == <<x>>

IsSome(o) == Len(o) = 1

Val(o) == o[1]

\* ToBoolean of an optional string or date text: undefined and "" are falsy.
TruthyText(o) == IsSome(o) /\ Val(o) # <<>>

\* ToBoolean of an optional number: undefined, 0 and NaN are falsy.
TruthyNumber(o) == IsSome(o) /\ Val(o) # 0

(***************************************************************************)
(* Numbers: NaN is None, comparisons with NaN are false.                   *)
(***************************************************************************)
NaN == None

NumLt(a, b) == IsSome(a) /\ IsSome(b) /\ Val(a) < Val(b)

NumGt(a, b) == IsSome(a) /\ IsSome(b) /\ Val(a) > Val(b)

Digits == <<"0", "1", "2", "3", "4", "5", "6", "7", "8", "9">>

IsDigit(c) == \E i \in 1..10 : Digits[i] = c

DigitValue(c) == (CHOOSE i \in 1..10 : Digits[i] = c) - 1

\* The length of the longest prefix of digits of a text.
RECURSIVE DigitPrefixLen(_)
DigitPrefixLen(t) ==
  IF t = <<>> \/ ~IsDigit(Head(t)) THEN 0 ELSE 1 + DigitPrefixLen(Tail(t))

RECURSIVE DecimalValue(_)
DecimalValue(t) ==
  IF t = <<>> THEN 0
  ELSE 10 * DecimalValue(SubSeq(t, 1, Len(t) - 1)) + DigitValue(t[Len(t)])

\* parseFloat on an unsigned text: the number spelled by the longest prefix
\* of digits, NaN when the text does not start with a digit.
parseFloat(t) ==
  LET n == DigitPrefixLen(t)
  IN  IF n = 0 THEN NaN ELSE Some(DecimalValue(SubSeq(t, 1, n)))

(***************************************************************************)
(* Text: String.prototype.toLowerCase and String.prototype.includes.       *)
(***************************************************************************)
UpperLetters == <<"K", "M", "W", "T", "I", "A", "B">>

LowerLetters == <<"k", "m", "w", "t", "i", "a", "b">>

IsUpper(c) == \E i \in 1..Len(UpperLetters) : UpperLetters[i] = c

toLowerCaseChar(c) ==
  IF IsUpper(c)
  THEN LowerLetters[CHOOSE i \in 1..Len(UpperLetters) : UpperLetters[i] = c]
  ELSE c

toLowerCase(t) == [i \in 1..Len(t) |-> toLowerCaseChar(t[i])]

includes(hay, needle) ==
  \E i \in 0..(Len(hay) - Len(needle)) : SubSeq(hay, i + 1, i + Len(needle)) = needle

(***************************************************************************)
(* Dates: string comparison of ISO dates, and Date.prototype.getTime of a  *)
(* date-only ISO text (UTC midnight).  Instants are counted in seconds:    *)
(* every instant here is a whole number of seconds, so the factor 1000 of  *)
(* the millisecond clock is divided out of both sides of a comparison.     *)
(***************************************************************************)
StrLt(a, b) ==
  \/ a[1] < b[1]
  \/ a[1] = b[1] /\ a[2] < b[2]
  \/ a[1] = b[1] /\ a[2] = b[2] /\ a[3] < b[3]

StrGt(a, b) == StrLt(b, a)

IsLeap(y) == (y % 4 = 0 /\ y % 100 # 0) \/ y % 400 = 0

DaysInMonth(y, m) ==
  IF m = 2 THEN (IF IsLeap(y) THEN 29 ELSE 28)
  ELSE IF m \in {4, 6, 9, 11} THEN 30 ELSE 31

LeapsBefore(y) == ((y - 1) \div 4) - ((y - 1) \div 100) + ((y - 1) \div 400)

RECURSIVE DaysBeforeMonth(_, _)
DaysBeforeMonth(y, m) ==
  IF m = 1 THEN 0 ELSE DaysBeforeMonth(y, m - 1) + DaysInMonth(y, m - 1)

\* Days from 1970-01-01 to the date.
DaysFromEpoch(d) ==
  365 * (d[1] - 1970) + (LeapsBefore(d[1]) - LeapsBefore(1970))
    + DaysBeforeMonth(d[1], d[2]) + (d[3] - 1)

getTime(d) == DaysFromEpoch(d) * (24 * 60 * 60)

oneYearInMs == 365 * 24 * 60 * 60

(***************************************************************************)
(* EegTariffRecord, and the records the tariff table can hold.             *)
(***************************************************************************)
Tariff(pk, sk, bez, wk, dfrom, dto, pfrom, pto, rate) ==
  [pk |-> pk, sk |-> sk, bezeichnung |-> bez, weitereKriterien |-> wk,
   commissioning_date_from |-> dfrom, commissioning_date_to |-> dto,
   power_output_from |-> pfrom, power_output_to |-> pto,
   einspeiseverguetung |-> rate, anzulegender_wert |-> rate,
   ausfallverguetung |-> Some(0), mieterstromzuschlag |-> None]

\* The records a table may hold: closed and open-ended date ranges (one
\* starting in a leap year), records without a date range, closed and
\* open-ended power ranges, an upper power bound of 0, records without a
\* power range, with and without criteria text and designation.
RecordPool ==
  { Tariff("Solar", "closed", Some(<<"T", "t">>), Some(<<"1", " ", "M", "W">>),
           Some(<<2020, 1, 1>>), Some(<<2021, 12, 31>>), Some(0), Some(10), Some(12)),
    Tariff("Solar", "open22", Some(<<"t", "k">>), Some(<<"k", "w">>),
           Some(<<2022, 1, 1>>), None, Some(10), Some(40), Some(10)),
    Tariff("Solar", "open20", Some(<<"T", "K">>), None,
           Some(<<2020, 1, 1>>), None, Some(10), None, Some(8)),
    Tariff("Solar", "zero", Some(<<"w">>), Some(<<"M", "w", " ", "t">>),
           Some(<<2021, 12, 31>>), None, Some(0), Some(0), Some(7)),
    Tariff("Solar", "nopower", None, Some(<<"K", "W">>),
           Some(<<2022, 1, 1>>), Some(<<2022, 12, 31>>), None, None, None),
    Tariff("Solar", "nopower2", Some(<<"t">>), None,
           None, Some(<<2022, 12, 31>>), None, Some(40), Some(5)),
    Tariff("Wind", "wind", Some(<<"W">>), Some(<<"m", "w">>),
           Some(<<2022, 1, 1>>), None, Some(100), None, Some(6)) }

MaxRecords == 3

RECURSIVE SeqsUpTo(_, _)
SeqsUpTo(S, n) ==
  IF n = 0 THEN {<<>>}
  ELSE LET shorter == SeqsUpTo(S, n - 1)
       IN  shorter \cup {Append(q, x) : q \in {t \in shorter : Len(t) = n - 1}, x \in S}

\* The answer of the table to the QueryCommand with key pk, in the order the
\* table returns its items.
Query(table, pk) == SelectSeq(table, LAMBDA r : r.pk = pk)

(***************************************************************************)
(* lookupTariffs (tariff-lookup.ts).                                       *)
(***************************************************************************)
\* A validation that tests for undefined only.
TruthyStringDefinedOnly(o) == IsSome(o)

TruthyString(o) == IsSome(o) /\ Val(o) # ""

\* The staleness test with >= in place of >.
KeepsDateOffByOne(record, commissioningDate) ==
  IF ~TruthyText(record.commissioning_date_from) THEN FALSE
  ELSE IF StrLt(commissioningDate, Val(record.commissioning_date_from)) THEN FALSE
  ELSE IF TruthyText(record.commissioning_date_to)
          /\ StrGt(commissioningDate, Val(record.commissioning_date_to)) THEN FALSE
  ELSE IF ~TruthyText(record.commissioning_date_to)
          /\ getTime(commissioningDate) - getTime(Val(record.commissioning_date_from))
               >= oneYearInMs THEN FALSE
  ELSE TRUE

\* The staleness test applied whether or not the range has an end.
KeepsDateStaleAlways(record, commissioningDate) ==
  IF ~TruthyText(record.commissioning_date_from) THEN FALSE
  ELSE IF StrLt(commissioningDate, Val(record.commissioning_date_from)) THEN FALSE
  ELSE IF TruthyText(record.commissioning_date_to)
          /\ StrGt(commissioningDate, Val(record.commissioning_date_to)) THEN FALSE
  ELSE IF getTime(commissioningDate) - getTime(Val(record.commissioning_date_from))
            > oneYearInMs THEN FALSE
  ELSE TRUE

\* The filter callback on commissioningDate, lines 58-78.
KeepsDate(record, commissioningDate) ==
  IF ~TruthyText(record.commissioning_date_from) THEN FALSE
  ELSE IF StrLt(commissioningDate, Val(record.commissioning_date_from)) THEN FALSE
  ELSE IF TruthyText(record.commissioning_date_to)
          /\ StrGt(commissioningDate, Val(record.commissioning_date_to)) THEN FALSE
  ELSE IF ~TruthyText(record.commissioning_date_to)
          /\ getTime(commissioningDate) - getTime(Val(record.commissioning_date_from))
               > oneYearInMs THEN FALSE
  ELSE TRUE

\* The test with only the record's field lower-cased.
KeepsTextNeedleCase(field, text) ==
  IsSome(field) /\ includes(toLowerCase(Val(field)), text)

\* record.<field>?.toLowerCase().includes(text.toLowerCase()), lines 83 and 88.
KeepsText(field, text) ==
  IsSome(field) /\ includes(toLowerCase(Val(field)), toLowerCase(text))

\* A power filter that keeps the records without a power range.
KeepsPowerWithoutRange(record, power) ==
  IF record.power_output_from = None THEN TRUE
  ELSE IF NumLt(power, record.power_output_from) THEN FALSE
  ELSE IF TruthyNumber(record.power_output_to)
          /\ NumGt(power, record.power_output_to) THEN FALSE
  ELSE TRUE

\* The filter callback on powerOutput, lines 94-102.
KeepsPower(record, power) ==
  IF record.power_output_from = None THEN FALSE
  ELSE IF NumLt(power, record.power_output_from) THEN FALSE
  ELSE IF TruthyNumber(record.power_output_to)
          /\ NumGt(power, record.power_output_to) THEN FALSE
  ELSE TRUE

\* The comparator with a missing power_output_from read as 0.
comparePowerMissingZero(a, b) ==
  (IF IsSome(a.power_output_from) THEN Val(a.power_output_from) ELSE 0)
    - (IF IsSome(b.power_output_from) THEN Val(b.power_output_from) ELSE 0)

\* The comparator of the sort, lines 106-110: powerA - powerB with a missing
\* power_output_from read as Infinity.  A finite number minus Infinity is
\* -Infinity, Infinity minus a finite number is Infinity, and Infinity minus
\* Infinity is NaN, which the sort reads as +0.
comparePower(a, b) ==
  IF IsSome(a.power_output_from) /\ IsSome(b.power_output_from)
  THEN Val(a.power_output_from) - Val(b.power_output_from)
  ELSE IF IsSome(a.power_output_from) THEN -1
  ELSE IF IsSome(b.power_output_from) THEN 1
  ELSE 0

\* Array.prototype.sort is stable: an element goes before the first element
\* of the sorted prefix that the comparator puts after it.
InsertSorted(sorted, x) ==
  LET later == {i \in 1..Len(sorted) : comparePower(x, sorted[i]) < 0}
      at == IF later = {} THEN Len(sorted) + 1
            ELSE CHOOSE i \in later : \A j \in later : i <= j
  IN  SubSeq(sorted, 1, at - 1) \o <<x>> \o SubSeq(sorted, at, Len(sorted))

RECURSIVE sort(_)
sort(records) ==
  IF records = <<>> THEN <<>>
  ELSE InsertSorted(sort(SubSeq(records, 1, Len(records) - 1)), records[Len(records)])

FilterDate(records, commissioningDate) ==
  IF TruthyText(commissioningDate)
  THEN SelectSeq(records, LAMBDA r : KeepsDate(r, Val(commissioningDate)))
  ELSE records

FilterCriteria(records, criteria) ==
  IF TruthyText(criteria)
  THEN SelectSeq(records, LAMBDA r : KeepsText(r.weitereKriterien, Val(criteria)))
  ELSE records

FilterBezeichnung(records, bezeichnung) ==
  IF TruthyText(bezeichnung)
  THEN SelectSeq(records, LAMBDA r : KeepsText(r.bezeichnung, Val(bezeichnung)))
  ELSE records

FilterPower(records, powerOutput) ==
  IF TruthyText(powerOutput)
  THEN SelectSeq(records, LAMBDA r : KeepsPower(r, parseFloat(Val(powerOutput))))
  ELSE records

ErrorResult(message) ==
  [found |-> FALSE, records |-> <<>>, totalCount |-> 0, error |-> Some(message)]

\* The early return on a falsy energyType, lines 32-39.
lookupRejected == ErrorResult("energyType parameter is required")

\* A catch clause that hands the exception's message to the caller.
lookupCatchLeak ==
  [found |-> FALSE, records |-> <<>>, totalCount |-> 0, error |-> Some("DynamoDB error")]

\* The catch clause, lines 117-125.
lookupCatch == ErrorResult("Internal server error")

\* A result whose records carry the designation in lower case.
lookupFoundNormalised(records) ==
  [found |-> Len(records) > 0,
   records |-> [i \in 1..Len(records) |->
                  [records[i] EXCEPT !.bezeichnung =
                     IF IsSome(@) THEN Some(toLowerCase(Val(@))) ELSE @]],
   totalCount |-> Len(records), error |-> None]

\* A result that reports found whatever the records.
lookupFoundAlways(records) ==
  [found |-> TRUE, records |-> records, totalCount |-> Len(records), error |-> None]

\* The result of the try block, lines 112-116.
lookupFound(records) ==
  [found |-> Len(records) > 0, records |-> records,
   totalCount |-> Len(records), error |-> None]

\* The commands lookupTariffs sends to the table: none when energyType is
\* falsy, else the one QueryCommand, which resolves (storeOk) or rejects.
lookupSends(params, storeOk) ==
  IF ~TruthyString(params.energyType) THEN <<>>
  ELSE <<[pk |-> Val(params.energyType), ok |-> storeOk]>>

lookupTariffs(table, params, storeOk) ==
  IF ~TruthyString(params.energyType) THEN lookupRejected
  ELSE IF ~storeOk THEN lookupCatch
  ELSE lookupFound(
         sort(FilterPower(
                FilterBezeichnung(
                  FilterCriteria(
                    FilterDate(Query(table, Val(params.energyType)),
                               params.commissioningDate),
                    params.criteria),
                  params.bezeichnung),
                params.powerOutput)))

(***************************************************************************)
(* The GET /tariff handler (api-handler.ts): its own copy of the pipeline. *)
(***************************************************************************)
\* The filter callback on commissioningDate, lines 41-49.
apiKeepsDate(record, commissioningDate) ==
  IF ~TruthyText(record.commissioning_date_from) THEN FALSE
  ELSE IF StrLt(commissioningDate, Val(record.commissioning_date_from)) THEN FALSE
  ELSE IF TruthyText(record.commissioning_date_to)
          /\ StrGt(commissioningDate, Val(record.commissioning_date_to)) THEN FALSE
  ELSE TRUE

\* The filter callback on powerOutput, lines 60-68.
apiKeepsPower(record, power) ==
  IF record.power_output_from = None THEN FALSE
  ELSE IF NumLt(power, record.power_output_from) THEN FALSE
  ELSE IF TruthyNumber(record.power_output_to)
          /\ NumGt(power, record.power_output_to) THEN FALSE
  ELSE TRUE

\* The comparator of the sort, lines 72-76.
apiComparePower(a, b) ==
  IF IsSome(a.power_output_from) /\ IsSome(b.power_output_from)
  THEN Val(a.power_output_from) - Val(b.power_output_from)
  ELSE IF IsSome(a.power_output_from) THEN -1
  ELSE IF IsSome(b.power_output_from) THEN 1
  ELSE 0

apiInsertSorted(sorted, x) ==
  LET later == {i \in 1..Len(sorted) : apiComparePower(x, sorted[i]) < 0}
      at == IF later = {} THEN Len(sorted) + 1
            ELSE CHOOSE i \in later : \A j \in later : i <= j
  IN  SubSeq(sorted, 1, at - 1) \o <<x>> \o SubSeq(sorted, at, Len(sorted))

RECURSIVE apiSort(_)
apiSort(records) ==
  IF records = <<>> THEN <<>>
  ELSE apiInsertSorted(apiSort(SubSeq(records, 1, Len(records) - 1)), records[Len(records)])

apiRecords(table, params) ==
  LET queried == Query(table, Val(params.energyType))
      dated == IF TruthyText(params.commissioningDate)
               THEN SelectSeq(queried,
                              LAMBDA r : apiKeepsDate(r, Val(params.commissioningDate)))
               ELSE queried
      texted == IF TruthyText(params.criteria)
                THEN SelectSeq(dated,
                               LAMBDA r : KeepsText(r.weitereKriterien, Val(params.criteria)))
                ELSE dated
      powered == IF TruthyText(params.powerOutput)
                 THEN SelectSeq(texted,
                                LAMBDA r : apiKeepsPower(r, parseFloat(Val(params.powerOutput))))
                 ELSE texted
  IN  apiSort(powered)

\* The response: the status code and the body before JSON.stringify.
apiHandler(table, params, storeOk) ==
  IF ~TruthyString(params.energyType)
  THEN [statusCode |-> 400,
        body |-> [found |-> FALSE, records |-> None, totalCount |-> None,
                  error |-> Some("energyType parameter is required")]]
  ELSE IF ~storeOk
  THEN [statusCode |-> 500,
        body |-> [found |-> FALSE, records |-> None, totalCount |-> None,
                  error |-> Some("Internal server error")]]
  ELSE LET records == apiRecords(table, params)
       IN  [statusCode |-> 200,
            body |-> [found |-> Len(records) > 0, records |-> Some(records),
                      totalCount |-> Some(Len(records)), error |-> None]]

(***************************************************************************)
(* The webhook handler (webhook-handler.ts).  An event carries a body (none, *)
(* one that is not JSON, or a payload) and the x-epilot-token header.  The *)
(* calls to the entity client and the callback request are the effects of  *)
(* an invocation; processed_at, a timestamp, is left out of updateData.     *)
(***************************************************************************)
\* The lookup parameters, lines 39-44: energyType || "", the commissioning
\* date of the entity, and no powerOutput.
webhookParams(entity) ==
  [energyType |-> IF TruthyString(entity.energietraeger) THEN entity.energietraeger
                  ELSE Some(""),
   commissioningDate |-> entity.inbetriebnahme,
   powerOutput |-> None, criteria |-> None, bezeichnung |-> None]

\* The callback of tariffs.find, lines 75-81.
webhookMatches(tariff, power) ==
  IF tariff.power_output_from = None THEN FALSE
  ELSE IF NumLt(power, tariff.power_output_from) THEN FALSE
  ELSE IF TruthyNumber(tariff.power_output_to)
          /\ NumGt(power, tariff.power_output_to) THEN FALSE
  ELSE TRUE

\* bestTariff of a non-empty list, lines 70-86.
bestTariff(tariffs, powerOutput) ==
  IF TruthyText(powerOutput)
  THEN LET power == parseFloat(Val(powerOutput))
           hits == {i \in 1..Len(tariffs) : webhookMatches(tariffs[i], power)}
       IN  IF hits = {} THEN tariffs[1]
           ELSE tariffs[CHOOSE i \in hits : \A j \in hits : i <= j]
  ELSE tariffs[1]

\* updateData, lines 59-94.  null is None; a field that is not set is None
\* and a field that is set is Some of its value.
updateData(tariffs, entity) ==
  IF Len(tariffs) > 0
  THEN LET best == bestTariff(tariffs, entity.leistung_kw)
       IN  [mieterstromzuschlag_ctkwh |-> best.mieterstromzuschlag,
            ausfall_verguetung_in_ctkwh |-> best.ausfallverguetung,
            anzulegender_wert_in_ctkwh |-> best.anzulegender_wert,
            einspeise_verguetung_in_ctkwh |-> best.einspeiseverguetung,
            bezeichnung |-> Some(IF IsSome(best.bezeichnung) THEN best.bezeichnung
                                 ELSE entity.bezeichnung),
            eeg_feed_in_tariffs |-> Some(tariffs)]
  ELSE [mieterstromzuschlag_ctkwh |-> None,
        ausfall_verguetung_in_ctkwh |-> None,
        anzulegender_wert_in_ctkwh |-> None,
        einspeise_verguetung_in_ctkwh |-> None,
        bezeichnung |-> None,
        eeg_feed_in_tariffs |-> None]

\* An activity label without the sentinel of the empty list.
activityBezeichnungNoSentinel(tariffs) ==
  IF Len(tariffs) > 0 THEN tariffs[1].bezeichnung ELSE None

\* The label of the activity, line 96.
activityBezeichnung(tariffs) ==
  IF Len(tariffs) > 0 THEN tariffs[1].bezeichnung ELSE Some(<<"unbekannte Anlage">>)

\* client.createActivity, lines 98-114.
createActivity(tariffs, entity, ok) ==
  [kind |-> "createActivity", ok |-> ok,
   message |-> IF TruthyText(activityBezeichnung(tariffs)) THEN "with bezeichnung"
               ELSE "without bezeichnung",
   input |-> [energyType |-> entity.energietraeger,
              commissioningDate |-> entity.inbetriebnahme,
              powerOutput |-> entity.leistung_kw],
   output |-> [payload |-> updateData(tariffs, entity),
               bezeichnung |-> activityBezeichnung(tariffs),
               tariffs |-> tariffs]]

\* client.patchEntity, lines 116-119.
patchEntity(tariffs, entity, ok) ==
  [kind |-> "patchEntity", ok |-> ok, slug |-> entity._schema, id |-> entity._id,
   data |-> updateData(tariffs, entity)]

\* The fetch of resumeEpilotExecution, lines 153-159; it resolves with an ok
\* status ("ok"), resolves with another status ("not ok") or rejects.
callbackRequest(data, outcome) ==
  [kind |-> "callback", ok |-> outcome = "ok", url |-> Val(data.callback_post_url),
   resume_token |-> Val(data.resume_token)]

\* A resumeEpilotExecution that logs the failure and resolves.
resumeEpilotExecutionSwallows(outcome) == "resolves"

\* resumeEpilotExecution, lines 144-172: it throws when the response is not
\* ok (line 162), and the catch clause rethrows what fetch or that check
\* threw (lines 168-171).
resumeEpilotExecution(outcome) ==
  IF outcome = "ok" THEN "resolves" ELSE "throws"

\* An error check that throws the error the lookup reported.
tariffLookupErrorRethrown(tariffResult) == IsSome(tariffResult.error)

\* The check of tariffResult.error, lines 46-48: the error is logged and
\* nothing is thrown.
tariffLookupErrorThrown(tariffResult) == FALSE

webhookResponse(statusCode, success, error) ==
  [statusCode |-> statusCode, body |-> [success |-> success, error |-> error]]

\* A catch clause that answers with the message of what was thrown.
webhookCatchLeak == webhookResponse(500, FALSE, Some("Callback failed: 500"))

\* The catch clause, lines 131-141.
webhookCatch == webhookResponse(500, FALSE, Some("Internal server error"))

\* The two checks with the token looked at first.
webhookRefusalTokenFirst(event) ==
  IF ~TruthyText(event.token)
  THEN Some(webhookResponse(401, FALSE, Some("Missing x-epilot-token header")))
  ELSE IF event.body = None
  THEN Some(webhookResponse(400, FALSE, Some("No body provided")))
  ELSE None

\* The early returns of lines 8-24: the response to an event without body
\* or without token, None for an event that passes both checks.
webhookRefusal(event) ==
  IF event.body = None
  THEN Some(webhookResponse(400, FALSE, Some("No body provided")))
  ELSE IF ~TruthyText(event.token)
  THEN Some(webhookResponse(401, FALSE, Some("Missing x-epilot-token header")))
  ELSE None

\* The commands the invocation sends to the table, through lookupTariffs.
webhookSends(event, out) ==
  IF TruthyText(event.token) /\ IsSome(event.body) /\ Val(event.body).json
  THEN lookupSends(webhookParams(Val(event.body).data.entity), out.storeOk)
  ELSE <<>>

\* The handler: its response and its effects, in the order they are issued.
webhookHandler(table, event, out) ==
  IF webhookRefusal(event) # None
  THEN [response |-> Val(webhookRefusal(event)), effects |-> <<>>]
  ELSE IF ~Val(event.body).json
  THEN [response |-> webhookCatch, effects |-> <<>>]
  ELSE LET data == Val(event.body).data
           entity == data.entity
           tariffResult == lookupTariffs(table, webhookParams(entity), out.storeOk)
           tariffs == tariffResult.records
           activity == createActivity(tariffs, entity, out.activityOk)
           patch == patchEntity(tariffs, entity, out.patchOk)
       IN  IF tariffLookupErrorThrown(tariffResult)
           THEN [response |-> webhookCatch, effects |-> <<>>]
           ELSE IF ~out.activityOk
           THEN [response |-> webhookCatch, effects |-> <<activity>>]
           ELSE IF ~out.patchOk
           THEN [response |-> webhookCatch, effects |-> <<activity, patch>>]
           ELSE IF TruthyText(data.callback_post_url) /\ TruthyText(data.resume_token)
           THEN [response |-> IF resumeEpilotExecution(out.callback) = "resolves"
                              THEN webhookResponse(200, TRUE, None)
                              ELSE webhookCatch,
                 effects |-> <<activity, patch, callbackRequest(data, out.callback)>>]
           ELSE [response |-> webhookResponse(200, TRUE, None),
                 effects |-> <<activity, patch>>]

(***************************************************************************)
(* The requests the two query paths are driven with.                       *)
(***************************************************************************)
Params(energyType, commissioningDate, powerOutput, criteria, bezeichnung) ==
  [energyType |-> energyType, commissioningDate |-> commissioningDate,
   powerOutput |-> powerOutput, criteria |-> criteria, bezeichnung |-> bezeichnung]

EnergyTypes == {None, Some(""), Some("Solar"), Some("Wind")}

\* Query dates around the starts and ends of the pool's ranges: the day
\* before a start, the start, 364, 365 and 366 days after it, and later.
QueryDates ==
  { <<2019, 12, 31>>, <<2020, 1, 1>>, <<2020, 12, 30>>, <<2020, 12, 31>>,
    <<2021, 1, 1>>, <<2021, 12, 31>>, <<2022, 1, 1>>, <<2022, 12, 31>>,
    <<2023, 1, 1>>, <<2023, 1, 2>>, <<2025, 1, 1>> }

QueryPowers ==
  { <<>>, <<"0">>, <<"5">>, <<"1", "0">>, <<"2", "5">>, <<"4", "0">>,
    <<"4", "1">>, <<"5", "0", "0">>, <<"k">> }

QueryTexts == { <<>>, <<"m", "w">>, <<"M", "W">>, <<"W">>, <<"t">>, <<"T", "k">>, <<"1">> }

\* Queries with at most one filter, and queries that combine the filters.
QueryParams ==
  {Params(e, None, None, None, None) : e \in EnergyTypes}
    \cup {Params(Some("Solar"), Some(d), None, None, None) : d \in QueryDates}
    \cup {Params(Some("Solar"), None, Some(p), None, None) : p \in QueryPowers}
    \cup {Params(Some("Solar"), None, None, Some(c), None) : c \in QueryTexts}
    \cup {Params(Some("Solar"), None, None, None, Some(b)) : b \in QueryTexts}
    \cup {Params(Some("Solar"), d, p, c, b) :
            d \in {None, Some(<<2022, 12, 31>>)}, p \in {None, Some(<<"2", "5">>)},
            c \in {None, Some(<<"W">>)}, b \in {None, Some(<<"T">>)}}

Requests == {[op |-> o, params |-> p] : o \in {"lookupTariffs", "apiHandler"}, p \in QueryParams}

(***************************************************************************)
(* The state machine: a table, the request being served, its response,     *)
(* and the commands the invocation sent to the table.                      *)
(***************************************************************************)
Init ==
  /\ store \in SeqsUpTo(RecordPool, MaxRecords)
  /\ request = None
  /\ response = None
  /\ sends = <<>>
  /\ effects = <<>>

\* A caller invokes lookupTariffs, or a GET /tariff request arrives.
Receive(req) ==
  /\ request = None
  /\ request' = Some(req)
  /\ UNCHANGED <<store, response, sends, effects>>

LookupTariffs(storeOk) ==
  /\ IsSome(request) /\ Val(request).op = "lookupTariffs" /\ response = None
  /\ response' = Some(lookupTariffs(store, Val(request).params, storeOk))
  /\ sends' = lookupSends(Val(request).params, storeOk)
  /\ UNCHANGED <<store, request, effects>>

ApiHandler(storeOk) ==
  /\ IsSome(request) /\ Val(request).op = "apiHandler" /\ response = None
  /\ response' = Some(apiHandler(store, Val(request).params, storeOk))
  /\ sends' = lookupSends(Val(request).params, storeOk)
  /\ UNCHANGED <<store, request, effects>>

\* The response is handed to the caller; the next invocation starts afresh.
Return ==
  /\ IsSome(response)
  /\ request' = None
  /\ response' = None
  /\ sends' = <<>>
  /\ effects' = <<>>
  /\ UNCHANGED store

Next ==
  \/ \E req \in Requests : Receive(req)
  \/ \E storeOk \in BOOLEAN : LookupTariffs(storeOk)
  \/ \E storeOk \in BOOLEAN : ApiHandler(storeOk)
  \/ Return

Spec == Init /\ [][Next]_vars

(***************************************************************************)
(* The webhook invocations: the events epilot may deliver, and the         *)
(* outcomes of the calls the handler makes.                                *)
(***************************************************************************)
WebhookPool == {r \in RecordPool : r.sk \in {"closed", "open22", "open20", "zero", "nopower"}}

Entity(energietraeger, inbetriebnahme, leistung_kw, bezeichnung) ==
  [_id |-> "e1", _schema |-> "opportunity", energietraeger |-> energietraeger,
   inbetriebnahme |-> inbetriebnahme, leistung_kw |-> leistung_kw,
   bezeichnung |-> bezeichnung]

Entities ==
  {Entity(e, d, p, b) :
     e \in {None, Some("Solar")},
     d \in {None, Some(<<2022, 12, 31>>)},
     p \in {None, Some(<<>>), Some(<<"0">>), Some(<<"5">>), Some(<<"2", "5">>), Some(<<"k">>)},
     b \in {None, Some(<<"e">>)}}

Payload(entity, url, token) ==
  Some([json |-> TRUE,
        data |-> [entity |-> entity, callback_post_url |-> url, resume_token |-> token]])

Events ==
  {[body |-> Payload(e, Some(<<"u">>), Some(<<"r">>)), token |-> Some(<<"t">>)] : e \in Entities}
    \cup {[body |-> Payload(Entity(Some("Solar"), None, Some(<<"5">>), None), u, r),
           token |-> t] :
            u \in {None, Some(<<"u">>)}, r \in {None, Some(<<"r">>)},
            t \in {None, Some(<<>>), Some(<<"t">>)}}
    \cup {[body |-> b, token |-> t] :
            b \in {None, Some([json |-> FALSE])}, t \in {None, Some(<<"t">>)}}

Outcomes ==
  [storeOk : BOOLEAN, activityOk : BOOLEAN, patchOk : BOOLEAN,
   callback : {"ok", "not ok", "rejects"}]

InitWebhook ==
  /\ store \in SeqsUpTo(WebhookPool, MaxRecords)
  /\ request = None
  /\ response = None
  /\ sends = <<>>
  /\ effects = <<>>

\* epilot delivers an event to the webhook.
ReceiveWebhook(event) ==
  /\ request = None
  /\ request' = Some([op |-> "webhook", event |-> event])
  /\ UNCHANGED <<store, response, sends, effects>>

WebhookHandler(out) ==
  /\ IsSome(request) /\ Val(request).op = "webhook" /\ response = None
  /\ LET run == webhookHandler(store, Val(request).event, out)
     IN  /\ response' = Some(run.response)
         /\ effects' = run.effects
  /\ sends' = webhookSends(Val(request).event, out)
  /\ UNCHANGED <<store, request>>

NextWebhook ==
  \/ \E event \in Events : ReceiveWebhook(event)
  \/ \E out \in Outcomes : WebhookHandler(out)
  \/ Return

SpecWebhook == InitWebhook /\ [][NextWebhook]_vars

(***************************************************************************)
(* The three entry points together, on tables of at most one record: the   *)
(* service function, the GET /tariff handler and the webhook handler.      *)
(***************************************************************************)
InitHandlers ==
  /\ store \in SeqsUpTo(WebhookPool, 1)
  /\ request = None
  /\ response = None
  /\ sends = <<>>
  /\ effects = <<>>

NextHandlers ==
  \/ \E req \in Requests : Receive(req)
  \/ \E storeOk \in BOOLEAN : LookupTariffs(storeOk)
  \/ \E storeOk \in BOOLEAN : ApiHandler(storeOk)
  \/ \E event \in Events : ReceiveWebhook(event)
  \/ \E out \in Outcomes : WebhookHandler(out)
  \/ Return

SpecHandlers == InitHandlers /\ [][NextHandlers]_vars

(***************************************************************************)
(* Regular expressions of the ingestion script.  A regular expression is   *)
(* a sequence of pieces; String.prototype.match returns the capture groups *)
(* of the leftmost match.  Every quantified piece of these expressions is  *)
(* followed by a piece that cannot match what it repeats, so the greedy    *)
(* match of each piece is the only one.                                    *)
(***************************************************************************)
WhiteSpace == {" "}

\* A literal text.
Lit(text) == [kind |-> "lit", text |-> text, capture |-> FALSE]

\* (\d{n})
DigitGroup(n) == [kind |-> "digits", n |-> n, capture |-> TRUE]

\* (\d+)
IntGroup == [kind |-> "int", capture |-> TRUE]

\* (\d+(?:,\d+)?)
NumGroup == [kind |-> "num", capture |-> TRUE]

\* \s*
Spaces == [kind |-> "spaces", capture |-> FALSE]

\* [...]
Class(chars) == [kind |-> "class", chars |-> chars, capture |-> FALSE]

\* $
End == [kind |-> "end", capture |-> FALSE]

\* The text from offset k on.
From(str, k) == SubSeq(str, k + 1, Len(str))

RECURSIVE SpacePrefixLen(_)
SpacePrefixLen(t) ==
  IF t = <<>> \/ Head(t) \notin WhiteSpace THEN 0 ELSE 1 + SpacePrefixLen(Tail(t))

\* The number of characters the piece takes at offset k, -1 when it does
\* not match there.
PieceLen(str, piece, k) ==
  CASE piece.kind = "lit" ->
         IF k + Len(piece.text) <= Len(str)
              /\ SubSeq(str, k + 1, k + Len(piece.text)) = piece.text
         THEN Len(piece.text) ELSE -1
    [] piece.kind = "digits" ->
         IF k + piece.n <= Len(str) /\ \A j \in 1..piece.n : IsDigit(str[k + j])
         THEN piece.n ELSE -1
    [] piece.kind = "int" ->
         LET n == DigitPrefixLen(From(str, k)) IN IF n = 0 THEN -1 ELSE n
    [] piece.kind = "num" ->
         LET n == DigitPrefixLen(From(str, k))
             m == IF k + n < Len(str) /\ str[k + n + 1] = ","
                  THEN DigitPrefixLen(From(str, k + n + 1)) ELSE 0
         IN  IF n = 0 THEN -1 ELSE IF m = 0 THEN n ELSE n + 1 + m
    [] piece.kind = "spaces" -> SpacePrefixLen(From(str, k))
    [] piece.kind = "class" ->
         IF k < Len(str) /\ str[k + 1] \in piece.chars THEN 1 ELSE -1
    [] piece.kind = "end" -> IF k = Len(str) THEN 0 ELSE -1

\* The capture groups of the match that starts at offset k, None when the
\* expression does not match there.
RECURSIVE MatchAt(_, _, _)
MatchAt(str, regexp, k) ==
  IF regexp = <<>> THEN Some(<<>>)
  ELSE LET piece == Head(regexp)
           n == PieceLen(str, piece, k)
       IN  IF n < 0 THEN None
           ELSE LET rest == MatchAt(str, Tail(regexp), k + n)
                IN  IF rest = None THEN None
                    ELSE IF piece.capture
                    THEN Some(<<SubSeq(str, k + 1, k + n)>> \o Val(rest))
                    ELSE rest

\* A match that is only tried at the start of the text.
matchAtStart(str, regexp) == MatchAt(str, regexp, 0)

\* str.match(regexp): null (None) or the groups of the leftmost match;
\* group i of the result is element [i] of the JavaScript array.
match(str, regexp) ==
  LET starts == {k \in 0..Len(str) : MatchAt(str, regexp, k) # None}
  IN  IF starts = {} THEN None
      ELSE MatchAt(str, regexp, CHOOSE k \in starts : \A j \in starts : k <= j)

RECURSIVE trimStart(_)
trimStart(t) ==
  IF t = <<>> \/ Head(t) \notin WhiteSpace THEN t ELSE trimStart(Tail(t))

RECURSIVE trimEnd(_)
trimEnd(t) ==
  IF t = <<>> \/ t[Len(t)] \notin WhiteSpace THEN t ELSE trimEnd(SubSeq(t, 1, Len(t) - 1))

\* String.prototype.trim
trim(t) == trimEnd(trimStart(t))

(***************************************************************************)
(* parseCommissioningDate.  The dates it builds are template strings of    *)
(* captured digit groups of fixed width, "YYYY-MM-DD"; they are the        *)
(* triples of the numbers the groups spell.                                *)
(***************************************************************************)
inbetriebnahme == <<"i", "n", "b", "e", "t", "r", "i", "e", "b", "n", "a", "h", "m", "e">>

modernisierung == <<"m", "o", "d", "e", "r", "n", "i", "s", "i", "e", "r", "u", "n", "g">>

bis == <<"b", "i", "s">>

ab == <<"a", "b">>

\* /bis (\d{4})/
yearRegexp == <<Lit(bis \o <<" ">>), DigitGroup(4)>>

\* /inbetriebnahme (\d{4})$/
singleYearRegexp == <<Lit(inbetriebnahme \o <<" ">>), DigitGroup(4), End>>

\* /inbetriebnahme (\d{2})-(\d{2})\/(\d{4})/
monthRangeRegexp ==
  <<Lit(inbetriebnahme \o <<" ">>), DigitGroup(2), Lit(<<"-">>), DigitGroup(2),
    Lit(<<"/">>), DigitGroup(4)>>

\* /ab (\d{2})\/(\d{4})/
fromDateRegexp == <<Lit(ab \o <<" ">>), DigitGroup(2), Lit(<<"/">>), DigitGroup(4)>>

\* /ab (\d{2})\.(\d{2})\.(\d{4})/
specificDateRegexp ==
  <<Lit(ab \o <<" ">>), DigitGroup(2), Lit(<<".">>), DigitGroup(2), Lit(<<".">>),
    DigitGroup(4)>>

\* /inbetriebnahme (\d{2})\/(\d{4})/
singleMonthRegexp ==
  <<Lit(inbetriebnahme \o <<" ">>), DigitGroup(2), Lit(<<"/">>), DigitGroup(4)>>

\* /modernisierung (\d{4})$/
modernizationYearRegexp == <<Lit(modernisierung \o <<" ">>), DigitGroup(4), End>>

\* /modernisierung (\d{2})-(\d{2})\/(\d{4})/
modernizationRangeRegexp ==
  <<Lit(modernisierung \o <<" ">>), DigitGroup(2), Lit(<<"-">>), DigitGroup(2),
    Lit(<<"/">>), DigitGroup(4)>>

\* /inbetriebnahme (\d{2})\.(\d{2})\. bis (\d{2})\.(\d{2})\.(\d{4})/
specificRangeRegexp ==
  <<Lit(inbetriebnahme \o <<" ">>), DigitGroup(2), Lit(<<".">>), DigitGroup(2),
    Lit(<<".", " ">> \o bis \o <<" ">>), DigitGroup(2), Lit(<<".">>), DigitGroup(2),
    Lit(<<".">>), DigitGroup(4)>>

\* /inbetriebnahme (\d{2})\.(\d{2})\. - (\d{2})\.(\d{2})\.(\d{4})/
dashRangeRegexp ==
  <<Lit(inbetriebnahme \o <<" ">>), DigitGroup(2), Lit(<<".">>), DigitGroup(2),
    Lit(<<".", " ", "-", " ">>), DigitGroup(2), Lit(<<".">>), DigitGroup(2),
    Lit(<<".">>), DigitGroup(4)>>

\* /inbetriebnahme (\d{2})\.(\d{2})\.(\d{4}) - (\d{2})\.(\d{2})\.(\d{4})/
crossYearRangeRegexp ==
  <<Lit(inbetriebnahme \o <<" ">>), DigitGroup(2), Lit(<<".">>), DigitGroup(2),
    Lit(<<".">>), DigitGroup(4), Lit(<<" ", "-", " ">>), DigitGroup(2), Lit(<<".">>),
    DigitGroup(2), Lit(<<".">>), DigitGroup(4)>>

\* The date `${year}-${month}-${day}` of three digit groups.
IsoDate(year, month, day) == <<DecimalValue(year), DecimalValue(month), DecimalValue(day)>>

\* new Date(parseInt(year), parseInt(month), 0).getDate(), lines 1180-1184:
\* day 0 of the month with index `month` is the last day of the month before
\* it; a month index past 11 runs into the next years, index 0 gives
\* December of the year before, and a year below 100 counts from 1900.
lastDay(year, month) ==
  LET y == IF DecimalValue(year) <= 99 THEN 1900 + DecimalValue(year)
           ELSE DecimalValue(year)
      months == 12 * y + DecimalValue(month) - 1
  IN  DaysInMonth(months \div 12, (months % 12) + 1)

DateRange(from, to) == Some([from |-> from, to |-> to])

\* parseCommissioningDate, lines 1104-1270; null is None.
parseCommissioningDate(dateStr) ==
  IF ~TruthyText(dateStr) THEN None
  ELSE
    LET str == trim(toLowerCase(Val(dateStr)))
        yearMatch == IF includes(str, bis) THEN match(str, yearRegexp) ELSE None
        singleYearMatch == match(str, singleYearRegexp)
        monthRangeMatch == match(str, monthRangeRegexp)
        fromDateMatch == match(str, fromDateRegexp)
        specificDateMatch == match(str, specificDateRegexp)
        singleMonthMatch == match(str, singleMonthRegexp)
        modernizationYearMatch == match(str, modernizationYearRegexp)
        modernizationRangeMatch == match(str, modernizationRangeRegexp)
        specificRangeMatch == match(str, specificRangeRegexp)
        dashRangeMatch == match(str, dashRangeRegexp)
        crossYearRangeMatch == match(str, crossYearRangeRegexp)
    IN  IF yearMatch # None
        THEN LET m == Val(yearMatch)
             IN  DateRange(<<1900, 1, 1>>, Some(<<DecimalValue(m[1]), 12, 31>>))
        ELSE IF singleYearMatch # None
        THEN LET year == DecimalValue(Val(singleYearMatch)[1])
             IN  DateRange(<<year, 1, 1>>, Some(<<year, 12, 31>>))
        ELSE IF monthRangeMatch # None
        THEN LET m == Val(monthRangeMatch)
             IN  DateRange(<<DecimalValue(m[3]), DecimalValue(m[1]), 1>>,
                           Some(<<DecimalValue(m[3]), DecimalValue(m[2]), 31>>))
        ELSE IF fromDateMatch # None
        THEN LET m == Val(fromDateMatch)
             IN  DateRange(<<DecimalValue(m[2]), DecimalValue(m[1]), 1>>, None)
        ELSE IF specificDateMatch # None
        THEN LET m == Val(specificDateMatch)
             IN  DateRange(IsoDate(m[3], m[2], m[1]), None)
        ELSE IF singleMonthMatch # None
        THEN LET m == Val(singleMonthMatch)
             IN  DateRange(<<DecimalValue(m[2]), DecimalValue(m[1]), 1>>,
                           Some(<<DecimalValue(m[2]), DecimalValue(m[1]),
                                  lastDay(m[2], m[1])>>))
        ELSE IF modernizationYearMatch # None
        THEN LET year == DecimalValue(Val(modernizationYearMatch)[1])
             IN  DateRange(<<year, 1, 1>>, Some(<<year, 12, 31>>))
        ELSE IF modernizationRangeMatch # None
        THEN LET m == Val(modernizationRangeMatch)
             IN  DateRange(<<DecimalValue(m[3]), DecimalValue(m[1]), 1>>,
                           Some(<<DecimalValue(m[3]), DecimalValue(m[2]), 31>>))
        ELSE IF specificRangeMatch # None
        THEN LET m == Val(specificRangeMatch)
             IN  DateRange(IsoDate(m[5], m[2], m[1]), Some(IsoDate(m[5], m[4], m[3])))
        ELSE IF dashRangeMatch # None
        THEN LET m == Val(dashRangeMatch)
             IN  DateRange(IsoDate(m[5], m[2], m[1]), Some(IsoDate(m[5], m[4], m[3])))
        ELSE IF crossYearRangeMatch # None
        THEN LET m == Val(crossYearRangeMatch)
             IN  DateRange(IsoDate(m[3], m[2], m[1]), Some(IsoDate(m[6], m[5], m[4])))
        ELSE None

(***************************************************************************)
(* parsePowerRange.  A captured number is a decimal with a comma; it is    *)
(* counted in thousandths, so that the product with 1000 is exact.  The    *)
(* ranges are whole numbers of kW, like every number of the model: a kW    *)
(* value is the whole part of its decimal.                                 *)
(***************************************************************************)
kw == <<"k", "w">>

mw == <<"m", "w">>

\* U+2264, LESS-THAN OR EQUAL TO, one character.
LessOrEqualSign == "U+2264"

\* /(\d+(?:,\d+)?)-(\d+(?:,\d+)?)\s*mw/
mwRangeRegexp == <<NumGroup, Lit(<<"-">>), NumGroup, Spaces, Lit(mw)>>

\* /(\d+(?:,\d+)?)\s*-\s*(\d+(?:,\d+)?)\s*mw/
mwRangeSpaceRegexp ==
  <<NumGroup, Spaces, Lit(<<"-">>), Spaces, NumGroup, Spaces, Lit(mw)>>

\* /(\d+(?:,\d+)?)\s*-\s*(\d+(?:,\d+)?)\s*kw/
kwRangeRegexp ==
  <<NumGroup, Spaces, Lit(<<"-">>), Spaces, NumGroup, Spaces, Lit(kw)>>

\* /(\d+)-(\d+)\s*kw/
kwRange2Regexp == <<IntGroup, Lit(<<"-">>), IntGroup, Spaces, Lit(kw)>>

\* /(\d+(?:,\d+)?)\s*kw\s*-\s*(\d+(?:,\d+)?)\s*mw/
mixedRangeRegexp ==
  <<NumGroup, Spaces, Lit(kw), Spaces, Lit(<<"-">>), Spaces, NumGroup, Spaces, Lit(mw)>>

\* />\s*(\d+(?:,\d+)?)\s*mw/
greaterMwRegexp == <<Lit(<<">">>), Spaces, NumGroup, Spaces, Lit(mw)>>

\* />\s*(\d+(?:,\d+)?)\s*kw/
greaterKwRegexp == <<Lit(<<">">>), Spaces, NumGroup, Spaces, Lit(kw)>>

\* /[U+2264<=]\s*(\d+(?:,\d+)?)\s*kw/
lesserKwRegexp ==
  <<Class({LessOrEqualSign, "<", "="}), Spaces, NumGroup, Spaces, Lit(kw)>>

\* /[U+2264<=]\s*(\d+(?:,\d+)?)\s*mw/
lesserMwRegexp ==
  <<Class({LessOrEqualSign, "<", "="}), Spaces, NumGroup, Spaces, Lit(mw)>>

\* The first three fraction digits of a digit text, as thousandths.
Fraction(t) ==
  DecimalValue(SubSeq(t \o <<"0", "0", "0">>, 1, 3))

\* A decimal that ignores what follows the comma.
DecimalWholePart(group) ==
  1000 * DecimalValue(SubSeq(group, 1, DigitPrefixLen(group)))

\* parseFloat(group.replace(",", ".")) of a captured number, in thousandths.
Decimal(group) ==
  LET n == DigitPrefixLen(group)
  IN  1000 * DecimalValue(SubSeq(group, 1, n))
        + (IF n < Len(group) THEN Fraction(From(group, n + 1)) ELSE 0)

\* A conversion to kW that leaves the number of MW as it is.
MegawattsUnconverted(decimal) == decimal \div 1000

\* fromMW * 1000: the kW of a number of MW.
MegawattsToKilowatts(decimal) == decimal

\* The kW of a number of kW.
Kilowatts(decimal) == decimal \div 1000

PowerRange(from, to) == Some([from |-> from, to |-> to])

\* parsePowerRange, lines 1273-1376; null is None.
parsePowerRange(criteriaStr) ==
  IF ~TruthyText(criteriaStr) THEN None
  ELSE
    LET str == trim(toLowerCase(Val(criteriaStr)))
        mwRangeMatch == match(str, mwRangeRegexp)
        mwRangeSpaceMatch == match(str, mwRangeSpaceRegexp)
        kwRangeMatch == match(str, kwRangeRegexp)
        kwRangeMatch2 == match(str, kwRange2Regexp)
        mixedRangeMatch == match(str, mixedRangeRegexp)
        greaterMwMatch == match(str, greaterMwRegexp)
        greaterKwMatch == match(str, greaterKwRegexp)
        lesserKwMatch == match(str, lesserKwRegexp)
        lesserMwMatch == match(str, lesserMwRegexp)
    IN  IF mwRangeMatch # None
        THEN PowerRange(MegawattsToKilowatts(Decimal(Val(mwRangeMatch)[1])),
                        Some(MegawattsToKilowatts(Decimal(Val(mwRangeMatch)[2]))))
        ELSE IF mwRangeSpaceMatch # None
        THEN PowerRange(MegawattsToKilowatts(Decimal(Val(mwRangeSpaceMatch)[1])),
                        Some(MegawattsToKilowatts(Decimal(Val(mwRangeSpaceMatch)[2]))))
        ELSE IF kwRangeMatch # None
        THEN PowerRange(Kilowatts(Decimal(Val(kwRangeMatch)[1])),
                        Some(Kilowatts(Decimal(Val(kwRangeMatch)[2]))))
        ELSE IF kwRangeMatch2 # None
        THEN PowerRange(DecimalValue(Val(kwRangeMatch2)[1]),
                        Some(DecimalValue(Val(kwRangeMatch2)[2])))
        ELSE IF mixedRangeMatch # None
        THEN PowerRange(Kilowatts(Decimal(Val(mixedRangeMatch)[1])),
                        Some(MegawattsToKilowatts(Decimal(Val(mixedRangeMatch)[2]))))
        ELSE IF greaterMwMatch # None
        THEN PowerRange(MegawattsToKilowatts(Decimal(Val(greaterMwMatch)[1])), None)
        ELSE IF greaterKwMatch # None
        THEN PowerRange(Kilowatts(Decimal(Val(greaterKwMatch)[1])), None)
        ELSE IF lesserKwMatch # None
        THEN PowerRange(0, Some(Kilowatts(Decimal(Val(lesserKwMatch)[1]))))
        ELSE IF lesserMwMatch # None
        THEN PowerRange(0, Some(MegawattsToKilowatts(Decimal(Val(lesserMwMatch)[1]))))
        ELSE None

(***************************************************************************)
(* isPowerInRange and isDateInRange.                                       *)
(***************************************************************************)
\* isPowerInRange, lines 1379-1383; range.to is tested for truthiness.
isPowerInRange(powerKW, range) ==
  IF powerKW < range.from THEN FALSE
  ELSE IF TruthyNumber(range.to) /\ powerKW > Val(range.to) THEN FALSE
  ELSE TRUE

\* A date test with an exclusive upper bound.
isDateInRangeExclusive(isoDate, range) ==
  IF StrLt(isoDate, range.from) THEN FALSE
  ELSE IF IsSome(range.to) /\ ~StrLt(isoDate, Val(range.to)) THEN FALSE
  ELSE TRUE

\* isDateInRange, lines 1386-1390; a date text is never empty, so range.to
\* is truthy when it is present.
isDateInRange(isoDate, range) ==
  IF StrLt(isoDate, range.from) THEN FALSE
  ELSE IF IsSome(range.to) /\ StrGt(isoDate, Val(range.to)) THEN FALSE
  ELSE TRUE

(***************************************************************************)
(* The texts and ranges the parsers and the range tests are called with:   *)
(* the forms of the commissioning-date and criteria columns exercised by   *)
(* scripts/populate-data.test.ts, over years, months, days and powers that *)
(* reach month ends, leap years, decimal commas and a bound of 0.          *)
(***************************************************************************)
Two(n) == <<Digits[(n \div 10) + 1], Digits[(n % 10) + 1]>>

Four(n) == Two(n \div 100) \o Two(n % 100)

Inbetriebnahme == <<"I">> \o Tail(inbetriebnahme)

Modernisierung == <<"M">> \o Tail(modernisierung)

Keywords == {Inbetriebnahme, Modernisierung}

\* What may precede "bis" or "ab" in a text.
Prefixes == {<<>>, Inbetriebnahme \o <<" ">>, Modernisierung \o <<" ">>}

Years == {1900, 2004, 2023}

Months == {1, 2, 6, 12}

Days == {1, 15, 31}

\* "bis 2001"
BisText(prefix, y) == prefix \o bis \o <<" ">> \o Four(y)

\* "Inbetriebnahme 2005", "Modernisierung 2020"
YearText(keyword, y) == keyword \o <<" ">> \o Four(y)

\* "Inbetriebnahme 01-07/2004", "Modernisierung 01-07/2014"
MonthRangeText(keyword, m1, m2, y) ==
  keyword \o <<" ">> \o Two(m1) \o <<"-">> \o Two(m2) \o <<"/">> \o Four(y)

\* "ab 01/2017"
AbMonthText(prefix, m, y) == prefix \o ab \o <<" ">> \o Two(m) \o <<"/">> \o Four(y)

\* "ab 25.07.2017"
AbDateText(prefix, d, m, y) ==
  prefix \o ab \o <<" ">> \o Two(d) \o <<".">> \o Two(m) \o <<".">> \o Four(y)

\* "Inbetriebnahme 04/2020"
SingleMonthText(m, y) == Inbetriebnahme \o <<" ">> \o Two(m) \o <<"/">> \o Four(y)

\* "Inbetriebnahme 30.07. bis 31.12.2022"
BisRangeText(d1, m1, d2, m2, y) ==
  Inbetriebnahme \o <<" ">> \o Two(d1) \o <<".">> \o Two(m1) \o <<".", " ">> \o bis
    \o <<" ">> \o Two(d2) \o <<".">> \o Two(m2) \o <<".">> \o Four(y)

\* "Inbetriebnahme 01.01. - 15.05.2024"
DashRangeText(d1, m1, d2, m2, y) ==
  Inbetriebnahme \o <<" ">> \o Two(d1) \o <<".">> \o Two(m1) \o <<".", " ", "-", " ">>
    \o Two(d2) \o <<".">> \o Two(m2) \o <<".">> \o Four(y)

\* "Inbetriebnahme 25.07.2017 - 31.12.2020"
CrossYearText(d1, m1, y1, d2, m2, y2) ==
  Inbetriebnahme \o <<" ">> \o Two(d1) \o <<".">> \o Two(m1) \o <<".">> \o Four(y1)
    \o <<" ", "-", " ">> \o Two(d2) \o <<".">> \o Two(m2) \o <<".">> \o Four(y2)

\* Texts of none of the forms: other words, a keyword alone, a year of five
\* digits, a year after other words, a range of years, a date after "bis",
\* a power text.
OtherDateTexts ==
  { <<"t", "e", "x", "t">>,
    Inbetriebnahme,
    Inbetriebnahme \o <<" ">> \o Four(2005) \o <<"1">>,
    <<"x", " ">> \o Four(2005),
    Inbetriebnahme \o <<" ">> \o Four(2005) \o <<" ", "-", " ">> \o Four(2006),
    bis \o <<" ">> \o Two(31) \o <<".">> \o Two(12) \o <<".">> \o Four(2022),
    Two(10) \o <<" ">> \o kw }

\* Texts that two forms fit: "ab 01/2017 bis 2023", "Inbetriebnahme
\* 01.01. - 15.05.2004 bis 2023", "ab 01/2023 Inbetriebnahme 2004".
AmbiguousDateTexts ==
  { AbMonthText(<<>>, 1, 2017) \o <<" ">> \o BisText(<<>>, 2023),
    DashRangeText(1, 1, 15, 5, 2004) \o <<" ">> \o BisText(<<>>, 2023),
    AbMonthText(<<>>, 1, 2023) \o <<" ">> \o YearText(Inbetriebnahme, 2004) }

\* The same text in the spellings the parsers normalize: as written, with
\* blanks around it, and in lower case.
Spellings(t) == {t, <<" ">> \o t \o <<" ", " ">>, toLowerCase(t)}

\* Day and month pairs of the range forms.
RangeStarts == {<<1, 1>>, <<30, 7>>}

RangeEnds == {<<15, 5>>, <<31, 12>>}

DateTexts ==
  UNION {Spellings(t) : t \in
    {BisText(p, y) : p \in Prefixes, y \in Years}
      \cup {YearText(k, y) : k \in Keywords, y \in Years}
      \cup {MonthRangeText(k, m1, m2, y) :
              k \in Keywords, m1 \in {1, 7}, m2 \in {1, 2, 4, 6, 7, 12}, y \in Years}
      \cup {AbMonthText(p, m, y) : p \in Prefixes, m \in Months, y \in Years}
      \cup {AbDateText(p, d, m, y) :
              p \in {<<>>, Inbetriebnahme \o <<" ">>}, d \in Days, m \in Months, y \in Years}
      \cup {SingleMonthText(m, y) : m \in 1..12, y \in Years}
      \cup {BisRangeText(a[1], a[2], b[1], b[2], y) :
              a \in RangeStarts, b \in RangeEnds, y \in Years}
      \cup {DashRangeText(a[1], a[2], b[1], b[2], y) :
              a \in RangeStarts, b \in RangeEnds, y \in Years}
      \cup {CrossYearText(a[1], a[2], y1, b[1], b[2], y2) :
              a \in RangeStarts, b \in RangeEnds, y1 \in Years, y2 \in Years}
      \cup OtherDateTexts \cup AmbiguousDateTexts}

\* A number as it is written in the criteria column: whole, or with a
\* decimal comma and one or two fraction digits.
RECURSIVE Numeral(_)
Numeral(n) ==
  IF n < 10 THEN <<Digits[n + 1]>> ELSE Numeral(n \div 10) \o <<Digits[(n % 10) + 1]>>

Comma(whole, fraction) == Numeral(whole) \o <<",">> \o fraction

\* Written numbers with the thousandths they spell.
Number(text, thousandths) == [text |-> text, thousandths |-> thousandths]

WholeNumbers == {Number(Numeral(n), 1000 * n) : n \in {0, 1, 10, 40, 100}}

CommaNumbers ==
  { Number(Comma(0, <<"5">>), 500), Number(Comma(0, <<"7", "5">>), 750),
    Number(Comma(1, <<"5">>), 1500), Number(Comma(10, <<"0">>), 10000) }

MW == <<"M", "W">>

kW == <<"k", "W">>

\* "0-0,5 MW", "0-30 kW"
RangeText(f, t, unit) == f \o <<"-">> \o t \o <<" ">> \o unit

\* "1 - 10 MW", "10 - 40 kW"
RangeSpaceText(f, t, unit) == f \o <<" ", "-", " ">> \o t \o <<" ">> \o unit

\* "40 kW - 1 MW"
MixedRangeText(f, t) == f \o <<" ">> \o kW \o <<" ", "-", " ">> \o t \o <<" ">> \o MW

\* "> 1 MW", "> 100 kW"
GreaterText(f, unit) == <<">", " ">> \o f \o <<" ">> \o unit

\* The signs of "at most": U+2264 and "<=".
AtMostSigns == {<<LessOrEqualSign>>, <<"<", "=">>}

\* "<= 100 kW"
AtMostText(sign, f, unit) == sign \o <<" ">> \o f \o <<" ">> \o unit

\* U+2265, GREATER-THAN OR EQUAL TO, one character.
GreaterOrEqualSign == "U+2265"

\* Texts of none of the forms: a bare value in either unit, a bare number,
\* other words, a value after other words, a range without unit, and "at
\* least" written with U+2265 and with ">=".
OtherPowerTexts ==
  { <<GreaterOrEqualSign, " ">> \o Numeral(100) \o <<" ">> \o kW,
    <<">", "=", " ">> \o Numeral(100) \o <<" ">> \o kW,
    Numeral(100) \o <<" ">> \o kW,
    Numeral(1) \o <<" ">> \o MW,
    Comma(0, <<"5">>) \o <<" ">> \o MW,
    Numeral(100),
    <<"t", "e", "x", "t">>,
    bis \o <<" ">> \o Numeral(100) \o <<" ">> \o kW,
    ab \o <<" ">> \o Numeral(100) \o <<" ">> \o kW,
    Numeral(10) \o <<"-">> \o Numeral(40) }

PowerTexts ==
  UNION {Spellings(t) : t \in
    {RangeText(f.text, t.text, MW) : f \in WholeNumbers \cup CommaNumbers,
                                     t \in WholeNumbers \cup CommaNumbers}
      \cup {RangeSpaceText(f.text, t.text, MW) : f \in WholeNumbers \cup CommaNumbers,
                                                 t \in WholeNumbers \cup CommaNumbers}
      \cup {RangeText(f.text, t.text, kW) : f \in WholeNumbers, t \in WholeNumbers}
      \cup {RangeSpaceText(f.text, t.text, kW) : f \in WholeNumbers, t \in WholeNumbers}
      \cup {MixedRangeText(f.text, t.text) : f \in WholeNumbers,
                                             t \in WholeNumbers \cup CommaNumbers}
      \cup {GreaterText(f.text, MW) : f \in WholeNumbers \cup CommaNumbers}
      \cup {GreaterText(f.text, kW) : f \in WholeNumbers}
      \cup {AtMostText(s, f.text, MW) : s \in AtMostSigns, f \in WholeNumbers \cup CommaNumbers}
      \cup {AtMostText(s, f.text, kW) : s \in AtMostSigns, f \in WholeNumbers}
      \cup OtherPowerTexts}

\* The day before and the day after a date.
PrevDay(d) ==
  IF d[3] > 1 THEN <<d[1], d[2], d[3] - 1>>
  ELSE IF d[2] > 1 THEN <<d[1], d[2] - 1, DaysInMonth(d[1], d[2] - 1)>>
  ELSE <<d[1] - 1, 12, 31>>

NextDay(d) ==
  IF d[3] < DaysInMonth(d[1], d[2]) THEN <<d[1], d[2], d[3] + 1>>
  ELSE IF d[2] < 12 THEN <<d[1], d[2] + 1, 1>>
  ELSE <<d[1] + 1, 1, 1>>

\* Date ranges: the years and months the parser emits for the texts above,
\* a range of one day, a range across a year's end, and open-ended ranges.
DateRanges ==
  { [from |-> <<2005, 1, 1>>, to |-> Some(<<2005, 12, 31>>)],
    [from |-> <<2004, 2, 1>>, to |-> Some(<<2004, 2, 29>>)],
    [from |-> <<2004, 2, 29>>, to |-> Some(<<2004, 2, 29>>)],
    [from |-> <<2019, 12, 31>>, to |-> Some(<<2020, 1, 1>>)],
    [from |-> <<1900, 1, 1>>, to |-> Some(<<2001, 12, 31>>)],
    [from |-> <<2017, 7, 25>>, to |-> None],
    [from |-> <<2017, 1, 1>>, to |-> None] }

\* The dates tested against a range: its bounds, the days next to them,
\* a day inside and days far outside.
DatesAround(range) ==
  {PrevDay(range.from), range.from, NextDay(range.from), <<1899, 12, 31>>, <<2030, 6, 15>>}
    \cup (IF IsSome(range.to)
          THEN {PrevDay(Val(range.to)), Val(range.to), NextDay(Val(range.to))}
          ELSE {})

\* Power ranges the parser emits: "10 - 40 kW", "0-30 kW", "<= 0 kW",
\* "5-5 kW", "1 - 10 MW", "> 100 kW", "> 0 kW".
PowerRanges ==
  { [from |-> 10, to |-> Some(40)], [from |-> 0, to |-> Some(30)],
    [from |-> 0, to |-> Some(0)], [from |-> 5, to |-> Some(5)],
    [from |-> 1000, to |-> Some(10000)],
    [from |-> 100, to |-> None], [from |-> 0, to |-> None] }

PowersAround(range) ==
  {range.from - 1, range.from, range.from + 1, 500000}
    \cup (IF IsSome(range.to)
          THEN {Val(range.to) - 1, Val(range.to), Val(range.to) + 1}
          ELSE {})

ParserCalls ==
  {[op |-> "parseCommissioningDate", text |-> t] :
     t \in {None, Some(<<>>)} \cup {Some(x) : x \in DateTexts}}
    \cup {[op |-> "parsePowerRange", text |-> t] :
            t \in {None, Some(<<>>)} \cup {Some(x) : x \in PowerTexts}}
    \cup UNION {{[op |-> "isDateInRange", isoDate |-> d, range |-> r] : d \in DatesAround(r)} :
                  r \in DateRanges}
    \cup UNION {{[op |-> "isPowerInRange", powerKW |-> p, range |-> r] : p \in PowersAround(r)} :
                  r \in PowerRanges}

(***************************************************************************)
(* The calls of the parsers and of the range tests.                        *)
(***************************************************************************)
InitParsers ==
  /\ store = <<>>
  /\ request = None
  /\ response = None
  /\ sends = <<>>
  /\ effects = <<>>

Calling(op) == IsSome(request) /\ Val(request).op = op /\ response = None

ParseCommissioningDate ==
  /\ Calling("parseCommissioningDate")
  /\ response' = Some(parseCommissioningDate(Val(request).text))
  /\ UNCHANGED <<store, request, sends, effects>>

ParsePowerRange ==
  /\ Calling("parsePowerRange")
  /\ response' = Some(parsePowerRange(Val(request).text))
  /\ UNCHANGED <<store, request, sends, effects>>

IsDateInRange ==
  /\ Calling("isDateInRange")
  /\ response' = Some(isDateInRange(Val(request).isoDate, Val(request).range))
  /\ UNCHANGED <<store, request, sends, effects>>

IsPowerInRange ==
  /\ Calling("isPowerInRange")
  /\ response' = Some(isPowerInRange(Val(request).powerKW, Val(request).range))
  /\ UNCHANGED <<store, request, sends, effects>>

NextParsers ==
  \/ \E call \in ParserCalls : Receive(call)
  \/ ParseCommissioningDate
  \/ ParsePowerRange
  \/ IsDateInRange
  \/ IsPowerInRange
  \/ Return

SpecParsers == InitParsers /\ [][NextParsers]_vars

(***************************************************************************)
(* populateData: the rows of the sheet, the records built from them and    *)
(* the batches written to the table.  jsonData is a sequence of rows, a    *)
(* row is a sequence of cells, a cell is an optional text; an entry of     *)
(* jsonData may be undefined.                                              *)
(***************************************************************************)
\* row[i], with the index counted from 0 as in the code.
Cell(row, i) == IF i < Len(row) THEN row[i + 1] ELSE None

\* row[i]?.toString().trim()
trimmed(cell) == IF IsSome(cell) THEN Some(trim(Val(cell))) ELSE None

\* text || undefined
orUndefined(text) == IF TruthyText(text) THEN text ELSE None

\* parseFloat(row[i]) || undefined
rate(cell) ==
  LET number == IF IsSome(cell) THEN parseFloat(Val(cell)) ELSE NaN
  IN  IF TruthyNumber(number) THEN number ELSE None

\* The index of the first data row, line 1409.
firstDataRow == 4

\* A loop over every row of the sheet, the header rows included.
AllRows(jsonData) == jsonData

\* The rows the loop of lines 1409-1462 visits.
DataRows(jsonData) == SubSeq(jsonData, firstDataRow + 1, Len(jsonData))

\* The two tests that skip a row, lines 1413 and 1427.
Skipped(entry) ==
  \/ entry = None
  \/ ~TruthyText(Cell(Val(entry), 0))
  \/ trim(Val(Cell(Val(entry), 0))) = <<>>
  \/ ~TruthyText(trimmed(Cell(Val(entry), 1)))
  \/ ~TruthyText(trimmed(Cell(Val(entry), 0)))

\* The record literal of lines 1440-1459, from the trimmed texts of the
\* row and the results of the two parsers.
EegTariffRecord(row, bezeichnung, energietraeger, inbetriebnahmeText, weitereKriterien, dateRange, powerRange) ==
  [pk |-> Val(energietraeger),
   sk |-> Val(bezeichnung),
   bezeichnung |-> bezeichnung,
   energietraeger |-> energietraeger,
   inbetriebnahme |-> inbetriebnahmeText,
   weitereKriterien |-> orUndefined(weitereKriterien),
   anteilige_zuordnung |-> orUndefined(trimmed(Cell(row, 4))),
   einspeiseverguetung |-> rate(Cell(row, 5)),
   anzulegender_wert |-> rate(Cell(row, 6)),
   ausfallverguetung |-> rate(Cell(row, 7)),
   mieterstromzuschlag |-> rate(Cell(row, 8)),
   aufnahmedatum |-> orUndefined(trimmed(Cell(row, 9))),
   commissioning_date_from |-> IF dateRange = None THEN None
                               ELSE Some(Val(dateRange).from),
   commissioning_date_to |-> IF dateRange = None THEN None ELSE Val(dateRange).to,
   power_output_from |-> IF powerRange = None THEN None
                         ELSE Some(Val(powerRange).from),
   power_output_to |-> IF powerRange = None THEN None ELSE Val(powerRange).to]

\* The record of a row that is not skipped, lines 1415-1459.
RowRecord(row) ==
  EegTariffRecord(row, trimmed(Cell(row, 0)), trimmed(Cell(row, 1)), trimmed(Cell(row, 2)),
                  trimmed(Cell(row, 3)),
                  parseCommissioningDate(trimmed(Cell(row, 2))),
                  parsePowerRange(trimmed(Cell(row, 3))))

\* The records array after the loop, lines 1406-1462.
RECURSIVE RecordsOf(_)
RecordsOf(rows) ==
  IF rows = <<>> THEN <<>>
  ELSE IF Skipped(Head(rows)) THEN RecordsOf(Tail(rows))
  ELSE <<RowRecord(Val(Head(rows)))>> \o RecordsOf(Tail(rows))

batchSize == 25

\* The number of BatchWriteCommands, lines 1467-1468.
BatchCount(records) == (Len(records) + batchSize - 1) \div batchSize

\* records.slice(i, i + batchSize) of the n-th batch, n counted from 1.
Batch(records, n) ==
  SubSeq(records, (n - 1) * batchSize + 1,
         IF n * batchSize < Len(records) THEN n * batchSize ELSE Len(records))

\* The BatchWriteCommands sent, with the outcome of each.
BatchWrites(records, oks) ==
  [n \in 1..BatchCount(records) |->
     [kind |-> "BatchWrite", items |-> Batch(records, n), ok |-> oks[n]]]

\* A PutRequest: the item replaces the item of the same key, or is added.
Put(table, item) ==
  IF \E i \in 1..Len(table) : table[i].pk = item.pk /\ table[i].sk = item.sk
  THEN [i \in 1..Len(table) |->
          IF table[i].pk = item.pk /\ table[i].sk = item.sk THEN item ELSE table[i]]
  ELSE Append(table, item)

RECURSIVE PutAll(_, _)
PutAll(table, items) ==
  IF items = <<>> THEN table ELSE PutAll(Put(table, Head(items)), Tail(items))

\* The table after the commands: a command that fails writes nothing, and
\* the loop goes on with the next command (lines 1478-1483).
RECURSIVE Written(_, _)
Written(table, commands) ==
  IF commands = <<>> THEN table
  ELSE Written(IF Head(commands).ok THEN PutAll(table, Head(commands).items) ELSE table,
               Tail(commands))

(***************************************************************************)
(* The sheets populateData is run on, and the lookups made on the table    *)
(* it fills.                                                               *)
(***************************************************************************)
Solar == <<"S", "o", "l", "a", "r">>

Code(n) == <<"P">> \o Numeral(n)

\* A row with the cells A to J: category code, energy source, commissioning
\* text, criteria text, share, four rates, date of entry.
RowOf(code, energy, date, criteria, rateText) ==
  Some(<<code, energy, date, criteria, None, rateText, rateText, Some(<<"0">>), None,
         Some(Four(2025))>>)

\* Rows with both texts parsed, with a date text or a criteria text that is
\* of no form, a short row with the key of the first one, a row whose
\* ranges run backwards, and rows without category code or energy source.
RowPool ==
  { RowOf(Some(<<" ">> \o Code(1) \o <<" ">>), Some(Solar),
          Some(YearText(Inbetriebnahme, 2004)),
          Some(RangeSpaceText(Numeral(10), Numeral(40), kW)), Some(<<"1", "2">>)),
    RowOf(Some(Code(2)), Some(Solar), Some(<<"t", "e", "x", "t">>),
          Some(RangeText(Numeral(0), Numeral(30), kW)), Some(<<"9">>)),
    RowOf(Some(Code(3)), Some(Solar), Some(AbMonthText(Inbetriebnahme \o <<" ">>, 1, 2023)),
          Some(Numeral(100) \o <<" ">> \o kW), None),
    Some(<<Some(Code(1)), Some(Solar \o <<" ">>)>>),
    RowOf(Some(Code(4)), Some(Solar), Some(MonthRangeText(Inbetriebnahme, 7, 1, 2004)),
          Some(RangeText(Numeral(40), Numeral(10), kW)), Some(<<"8">>)),
    RowOf(Some(<<" ", " ">>), Some(Solar), Some(YearText(Inbetriebnahme, 2004)), None, None),
    RowOf(Some(Code(7)), Some(<<" ">>), Some(YearText(Inbetriebnahme, 2004)), None, None) }

\* The four rows above the data: a title, an empty row, an undefined entry
\* and a row that reads like a data row.
HeaderRows ==
  <<Some(<<Some(<<"t", "e", "x", "t">>)>>), Some(<<>>), None,
    RowOf(Some(Code(90)), Some(Solar), None, None, None)>>

MaxRows == 3

\* Sheets with up to MaxRows data rows, and sheets that end above them.
Sheets ==
  {HeaderRows \o d : d \in SeqsUpTo(RowPool, MaxRows)}
    \cup {<<>>, <<RowOf(Some(Code(90)), Some(Solar), None, None, None)>>}

IngestRequests ==
  {[op |-> "lookupTariffs", params |-> q] : q \in
     { Params(Some(Solar), None, None, None, None),
       Params(Some(<<"W">>), None, None, None, None),
       Params(Some(Solar), Some(<<2004, 6, 15>>), None, None, None),
       Params(Some(Solar), Some(<<2023, 6, 1>>), None, None, None),
       Params(Some(Solar), None, Some(<<"2", "5">>), None, None) }}

InitIngest ==
  /\ store = <<>>
  /\ request = None
  /\ response = None
  /\ sends = <<>>
  /\ effects = <<>>

\* The outcomes of writing the records to the table: the commands sent,
\* each of which may fail, and the table after them.
Runs(table, records) ==
  {[records |-> records,
    commands |-> BatchWrites(records, oks),
    table |-> Written(table, BatchWrites(records, oks))] :
     oks \in [1..BatchCount(records) -> BOOLEAN]}

\* One run of the script on an empty table.
PopulateData(jsonData) ==
  /\ request = None /\ store = <<>> /\ effects = <<>>
  /\ \E run \in Runs(store, RecordsOf(DataRows(jsonData))) :
       /\ store' = run.table
       /\ sends' = run.commands
       /\ effects' = <<[kind |-> "populateData", jsonData |-> jsonData,
                        records |-> run.records]>>
  /\ UNCHANGED <<request, response>>

NextIngest ==
  \/ \E jsonData \in Sheets : PopulateData(jsonData)
  \/ \E req \in IngestRequests : Receive(req)
  \/ \E storeOk \in BOOLEAN : LookupTariffs(storeOk)
  \/ Return

SpecIngest == InitIngest /\ [][NextIngest]_vars

(***************************************************************************)
(* The batch loop of populateData, step by step (lines 1466-1486).  The    *)
(* position of the script is the record effects[1]: the records array, the *)
(* loop index i and the phase ("loop" at the loop test, "await" while a    *)
(* send is outstanding, "done" after the loop, "failed" if the function    *)
(* rejects).  sends holds the commands in the order they were sent, each   *)
(* with its outcome.                                                       *)
(***************************************************************************)
\* records.slice(start, end)
slice(records, start, end) ==
  SubSeq(records, start + 1, IF end < Len(records) THEN end ELSE Len(records))

\* A loop that steps one record short of a batch.
nextBatchStartOverlapping(i) == i + batchSize - 1

\* i += batchSize, line 1467.
nextBatchStart(i) == i + batchSize

\* new BatchWriteCommand(...), lines 1470-1476, not yet settled.
BatchWriteCommand(batch) == [kind |-> "BatchWrite", items |-> batch, outcome |-> "pending"]

\* A catch block that passes the error on: the function rejects.
rethrowBatchError(script) == [script EXCEPT !.phase = "failed"]

\* The catch block of lines 1481-1483: the error is logged and the loop
\* goes on with the next batch.
catchBatchError(script) ==
  [script EXCEPT !.i = nextBatchStart(@), !.phase = "loop"]

\* The try block after the send has resolved, lines 1479-1480.
batchWritten(script) ==
  [script EXCEPT !.i = nextBatchStart(@), !.phase = "loop"]

\* A sheet of n data rows with distinct category codes.
BatchSheet(n) ==
  HeaderRows \o [k \in 1..n |->
     RowOf(Some(Code(k)), Some(Solar), Some(YearText(Inbetriebnahme, 2004)),
           Some(RangeText(Numeral(10), Numeral(40), kW)), Some(<<"7">>))]

MaxBatches == 2

\* Sheets of up to MaxBatches full batches and one record more.
BatchSheets == {BatchSheet(n) : n \in 0..(MaxBatches * batchSize + 1)}

InitBatch ==
  /\ store = <<>>
  /\ request = None
  /\ response = None
  /\ sends = <<>>
  /\ effects = <<>>

\* The script up to the batch loop: the rows are read and the records built.
ParseRows(jsonData) ==
  /\ effects = <<>>
  /\ effects' = <<[kind |-> "populateData", jsonData |-> jsonData,
                   records |-> RecordsOf(DataRows(jsonData)), i |-> 0, phase |-> "loop"]>>
  /\ UNCHANGED <<store, request, response, sends>>

\* One pass of the loop up to the await: the batch is cut and sent.
SendBatch ==
  /\ effects # <<>> /\ effects[1].phase = "loop"
  /\ effects[1].i < Len(effects[1].records)
  /\ sends' = Append(sends, BatchWriteCommand(
                 slice(effects[1].records, effects[1].i, effects[1].i + batchSize)))
  /\ effects' = <<[effects[1] EXCEPT !.phase = "await"]>>
  /\ UNCHANGED <<store, request, response>>

\* The send settles: the table takes the items if it resolved, and the
\* script goes on after the await or in the catch block.
SettleBatch(ok) ==
  /\ effects # <<>> /\ effects[1].phase = "await"
  /\ sends' = [sends EXCEPT ![Len(sends)].outcome = IF ok THEN "ok" ELSE "failed"]
  /\ store' = IF ok THEN PutAll(store, sends[Len(sends)].items) ELSE store
  /\ effects' = <<IF ok THEN batchWritten(effects[1]) ELSE catchBatchError(effects[1])>>
  /\ UNCHANGED <<request, response>>

\* The loop test fails: "Data population completed", line 1486.
CompletePopulateData ==
  /\ effects # <<>> /\ effects[1].phase = "loop"
  /\ effects[1].i >= Len(effects[1].records)
  /\ effects' = <<[effects[1] EXCEPT !.phase = "done"]>>
  /\ UNCHANGED <<store, request, response, sends>>

NextBatch ==
  \/ \E jsonData \in BatchSheets : ParseRows(jsonData)
  \/ SendBatch
  \/ \E ok \in BOOLEAN : SettleBatch(ok)
  \/ CompletePopulateData

SpecBatch == InitBatch /\ [][NextBatch]_vars

\* The steps of a script that has started.
ScriptStep ==
  \/ SendBatch
  \/ \E ok \in BOOLEAN : SettleBatch(ok)
  \/ CompletePopulateData

\* The script is one asynchronous function: once started, its next step is
\* taken whenever it has one, and a send that is outstanding settles.
SpecBatchFair == SpecBatch /\ WF_vars(ScriptStep)

(***************************************************************************)
(* Properties of the two query paths.                                      *)
(***************************************************************************)
LookupDone == IsSome(request) /\ IsSome(response) /\ Val(request).op = "lookupTariffs"

ApiDone == IsSome(request) /\ IsSome(response) /\ Val(request).op = "apiHandler"

\* The table answered the invocation's query.
Resolved == sends # <<>> /\ sends[1].ok

P == Val(request).params

R == Val(response)

Answer == Query(store, Val(P.energyType))

Elements(q) == {q[i] : i \in 1..Len(q)}

InResult(r) == r \in Elements(R.records)

Given(o) == IsSome(o) /\ Val(o) # <<>>

OnlyDateGiven == Given(P.commissioningDate) /\ ~Given(P.powerOutput)
                   /\ ~Given(P.criteria) /\ ~Given(P.bezeichnung)

OnlyPowerGiven == Given(P.powerOutput) /\ ~Given(P.commissioningDate)
                    /\ ~Given(P.criteria) /\ ~Given(P.bezeichnung)

\* Whole days from date a to date b.
DaysBetween(a, b) == DaysFromEpoch(b) - DaysFromEpoch(a)

OpenEnded(r) == IsSome(r.commissioning_date_from) /\ r.commissioning_date_to = None

Closed(r) == IsSome(r.commissioning_date_from) /\ IsSome(r.commissioning_date_to)

C2_OpenEndedNeverExpires ==
  (LookupDone /\ Resolved /\ OnlyDateGiven) =>
    \A r \in Elements(Answer) :
      (OpenEnded(r)
         /\ DaysBetween(Val(r.commissioning_date_from), Val(P.commissioningDate)) >= 0)
        => InResult(r)

\* C3: a record with a start and an end is kept by a lookup with
\* commissioningDate q if and only if start <= q <= end, whatever the
\* distance from the start (given no other filter drops it); a record with
\* no start is never kept.
C3_ClosedRange ==
  (LookupDone /\ Resolved /\ Given(P.commissioningDate)) =>
    \A r \in Elements(Answer) :
      LET q == Val(P.commissioningDate)
      IN  /\ InResult(r) => IsSome(r.commissioning_date_from)
          /\ Closed(r) =>
               LET inside == /\ DaysBetween(Val(r.commissioning_date_from), q) >= 0
                             /\ DaysBetween(q, Val(r.commissioning_date_to)) >= 0
               IN  /\ InResult(r) => inside
                   /\ (OnlyDateGiven /\ inside) => InResult(r)

\* A closed record kept more than 365 days after its start, with a record
\* without a start dropped.
C3_Witness ==
  /\ LookupDone /\ Resolved /\ OnlyDateGiven
  /\ \E r \in Elements(Answer) :
       /\ Closed(r) /\ InResult(r)
       /\ DaysBetween(Val(r.commissioning_date_from), Val(P.commissioningDate)) > 365
  /\ \E r \in Elements(Answer) : r.commissioning_date_from = None /\ ~InResult(r)

\* C4: with a numeric powerOutput p and no other filter, the lookup returns
\* exactly the stored records that have a power_output_from <= p and either
\* no power_output_to or p <= power_output_to, whatever the bounds' values.
C4_PowerFilterExact ==
  (LookupDone /\ Resolved /\ OnlyPowerGiven /\ parseFloat(Val(P.powerOutput)) # NaN) =>
    LET p == Val(parseFloat(Val(P.powerOutput)))
    IN  Elements(R.records) =
          {r \in Elements(Answer) :
             /\ IsSome(r.power_output_from)
             /\ Val(r.power_output_from) <= p
             /\ (r.power_output_to = None \/ p <= Val(r.power_output_to))}

\* The records of a sequence with a given power_output_from, in order.
WithFrom(q, from) == SelectSeq(q, LAMBDA r : r.power_output_from = from)

\* C5: the returned records are in ascending order of power_output_from,
\* those without one come last, and records with equal (or without)
\* power_output_from keep the order in which the table returned them.
C5_SortedStable ==
  (LookupDone /\ R.error = None) =>
    /\ \A i, j \in 1..Len(R.records) :
         i < j =>
           LET a == R.records[i].power_output_from
               b == R.records[j].power_output_from
           IN  /\ (IsSome(a) /\ IsSome(b)) => Val(a) <= Val(b)
               /\ a = None => b = None
    /\ \A r \in Elements(R.records) :
         WithFrom(R.records, r.power_output_from)
           = WithFrom(SelectSeq(Answer, InResult), r.power_output_from)

\* Three records returned in another order than the table's: two of equal
\* power_output_from in the table's order, then one without.
C5_Witness ==
  /\ LookupDone /\ R.error = None /\ Len(R.records) = 3
  /\ R.records # Answer
  /\ R.records[1].power_output_from = R.records[2].power_output_from
  /\ R.records[1] # R.records[2]
  /\ IsSome(R.records[2].power_output_from)
  /\ R.records[3].power_output_from = None

Missing(o) == o = None \/ o = Some("")

\* C6: with energyType empty or missing, lookupTariffs returns found = false,
\* no records, totalCount 0 and "energyType parameter is required", the GET
\* /tariff handler answers 400 with found = false and the same error, and
\* neither sends a query to the table.
C6_EnergyTypeRequired ==
  /\ (LookupDone /\ Missing(P.energyType)) =>
       /\ R.found = FALSE /\ R.records = <<>> /\ R.totalCount = 0
       /\ R.error = Some("energyType parameter is required")
       /\ sends = <<>>
  /\ (ApiDone /\ Missing(P.energyType)) =>
       /\ R.statusCode = 400 /\ R.body.found = FALSE
       /\ R.body.error = Some("energyType parameter is required")
       /\ sends = <<>>

\* lookupTariffs has answered a call with an empty energyType over a table
\* that holds records.
C6_Witness == LookupDone /\ P.energyType = Some("") /\ store # <<>>

\* C7: when the table query fails, lookupTariffs returns found = false, no
\* records, totalCount 0 and the error "Internal server error".
C7_StoreFailure ==
  (LookupDone /\ sends # <<>> /\ ~sends[1].ok) =>
    /\ R.found = FALSE /\ R.records = <<>> /\ R.totalCount = 0
    /\ R.error = Some("Internal server error")

\* The query failed over a table that holds records of the queried type.
C7_Witness == LookupDone /\ sends # <<>> /\ ~sends[1].ok /\ Answer # <<>>

\* C8: every result of lookupTariffs has found = (records is non-empty) and
\* totalCount = the number of records.
C8_FoundAndCount ==
  LookupDone => /\ R.found = (R.records # <<>>)
                /\ R.totalCount = Len(R.records)

\* A lookup that found nothing in a non-empty answer of the table.
C8_Witness == LookupDone /\ Resolved /\ Answer # <<>> /\ R.records = <<>>

\* Two characters that are the same letter in either case.
SameIgnoringCase(c, d) ==
  \/ c = d
  \/ \E i \in 1..Len(UpperLetters) :
       {c, d} = {UpperLetters[i], LowerLetters[i]}

\* needle occurs in the field, ignoring case.
ContainsIgnoringCase(field, needle) ==
  /\ IsSome(field)
  /\ \E k \in 0..(Len(Val(field)) - Len(needle)) :
       \A j \in 1..Len(needle) : SameIgnoringCase(Val(field)[k + j], needle[j])

SwapCaseChar(c) ==
  IF \E i \in 1..Len(UpperLetters) : UpperLetters[i] = c
  THEN LowerLetters[CHOOSE i \in 1..Len(UpperLetters) : UpperLetters[i] = c]
  ELSE IF \E i \in 1..Len(LowerLetters) : LowerLetters[i] = c
  THEN UpperLetters[CHOOSE i \in 1..Len(LowerLetters) : LowerLetters[i] = c]
  ELSE c

SwapCase(o) == IF IsSome(o) THEN Some([i \in 1..Len(Val(o)) |-> SwapCaseChar(Val(o)[i])]) ELSE o

\* C9: with criteria c a record is kept only if its weitereKriterien
\* contains c ignoring case, with bezeichnung b only if its bezeichnung
\* contains b ignoring case (a record without the field is dropped); with
\* no other filter given every such record is kept; and the result is the
\* same with the case of the filter texts swapped.
C9_TextFilters ==
  (LookupDone /\ Resolved) =>
    /\ Given(P.criteria) =>
         \A r \in Elements(Answer) :
           /\ InResult(r) => ContainsIgnoringCase(r.weitereKriterien, Val(P.criteria))
           /\ (~Given(P.commissioningDate) /\ ~Given(P.powerOutput) /\ ~Given(P.bezeichnung)
                 /\ ContainsIgnoringCase(r.weitereKriterien, Val(P.criteria)))
                => InResult(r)
    /\ Given(P.bezeichnung) =>
         \A r \in Elements(Answer) :
           /\ InResult(r) => ContainsIgnoringCase(r.bezeichnung, Val(P.bezeichnung))
           /\ (~Given(P.commissioningDate) /\ ~Given(P.powerOutput) /\ ~Given(P.criteria)
                 /\ ContainsIgnoringCase(r.bezeichnung, Val(P.bezeichnung)))
                => InResult(r)
    /\ R = lookupTariffs(store,
                         [P EXCEPT !.criteria = SwapCase(@), !.bezeichnung = SwapCase(@)],
                         TRUE)

\* A criteria text in upper case keeps a record whose text differs from it
\* in case, and drops a record without criteria text.
C9_Witness ==
  /\ LookupDone /\ Resolved /\ Given(P.criteria)
  /\ \E r \in Elements(Answer) :
       /\ InResult(r)
       /\ ~includes(Val(r.weitereKriterien), Val(P.criteria))
       /\ Val(P.criteria) # toLowerCase(Val(P.criteria))
  /\ \E r \in Elements(Answer) : r.weitereKriterien = None /\ ~InResult(r)

(***************************************************************************)
(* Properties of the webhook handler.                                      *)
(***************************************************************************)
WebhookDone == IsSome(request) /\ IsSome(response) /\ Val(request).op = "webhook"

\* The entity of the event being served.
WebhookEntity == Val(Val(request).event.body).data.entity

\* The handler issued the entity patch.
Patched == WebhookDone /\ Len(effects) >= 2 /\ effects[2].kind = "patchEntity"

\* The sorted tariff list of the invocation, as handed to createActivity.
WebhookTariffs == effects[1].output.tariffs

\* The power range of a tariff contains the value p.
RangeContains(t, p) ==
  /\ IsSome(t.power_output_from)
  /\ Val(t.power_output_from) <= p
  /\ (t.power_output_to = None \/ p <= Val(t.power_output_to))

SameRates(data, t) ==
  /\ data.mieterstromzuschlag_ctkwh = t.mieterstromzuschlag
  /\ data.ausfall_verguetung_in_ctkwh = t.ausfallverguetung
  /\ data.anzulegender_wert_in_ctkwh = t.anzulegender_wert
  /\ data.einspeise_verguetung_in_ctkwh = t.einspeiseverguetung

\* C10: over a non-empty tariff list, the rates written to the entity are
\* those of the first tariff whose power range contains the given power
\* value, and those of the first tariff of the list when no power value is
\* given or no tariff's range contains it.
C10_BestMatch ==
  (Patched /\ Len(WebhookTariffs) > 0) =>
    LET power == WebhookEntity.leistung_kw
        hits == IF Given(power) /\ parseFloat(Val(power)) # NaN
                THEN {i \in 1..Len(WebhookTariffs) :
                        RangeContains(WebhookTariffs[i], Val(parseFloat(Val(power))))}
                ELSE {}
        first == IF hits = {} THEN 1 ELSE CHOOSE i \in hits : \A j \in hits : i <= j
    IN  SameRates(effects[2].data, WebhookTariffs[first])

\* The handler called createActivity.
ActivityIssued == WebhookDone /\ Len(effects) >= 1 /\ effects[1].kind = "createActivity"

NoTariffData(data) ==
  /\ data.mieterstromzuschlag_ctkwh = None
  /\ data.ausfall_verguetung_in_ctkwh = None
  /\ data.anzulegender_wert_in_ctkwh = None
  /\ data.einspeise_verguetung_in_ctkwh = None
  /\ data.bezeichnung = None
  /\ data.eeg_feed_in_tariffs = None

\* C11: when the tariff list of an invocation is empty, the four rate
\* fields written to the entity are null, no bezeichnung and no
\* eeg_feed_in_tariffs are written, and the activity carries the label
\* 'unbekannte Anlage'.
C11_EmptyTariffList ==
  (ActivityIssued /\ WebhookTariffs = <<>>) =>
    /\ NoTariffData(effects[1].output.payload)
    /\ effects[1].output.bezeichnung = Some(<<"unbekannte Anlage">>)
    /\ Patched => NoTariffData(effects[2].data)

\* The entity was patched after a lookup that kept none of the records the
\* table holds for the entity's energy type.
C11_Witness ==
  /\ Patched /\ WebhookTariffs = <<>>
  /\ Resolved /\ Query(store, Val(WebhookEntity.energietraeger)) # <<>>

\* The event passed the body and token checks and its payload carries a
\* callback URL and a resume token.
CallbackRequested ==
  /\ WebhookDone
  /\ IsSome(Val(request).event.body) /\ TruthyText(Val(request).event.token)
  /\ Val(Val(request).event.body).json
  /\ TruthyText(Val(Val(request).event.body).data.callback_post_url)
  /\ TruthyText(Val(Val(request).event.body).data.resume_token)

CallbackIssued ==
  \E i \in 1..Len(effects) :
    /\ effects[i].kind = "callback"
    /\ effects[i].resume_token = Val(Val(Val(request).event.body).data.resume_token)

\* C12: every invocation that passes the body and token checks and whose
\* payload carries a callback URL and a resume token has issued a callback
\* request with that resume token when the handler returns, whatever the
\* outcome of the lookup and of the entity-client calls.
C12_CallbackAlwaysIssued == CallbackRequested => CallbackIssued

\* C13: when the callback request rejects or answers with a non-ok status,
\* resumeEpilotExecution throws and the invocation ends with status 500 and
\* success = false, never with status 200 and success = true.
C13_CallbackFailureIsFatal ==
  \A i \in 1..Len(effects) :
    (WebhookDone /\ effects[i].kind = "callback" /\ ~effects[i].ok) =>
      /\ R.statusCode = 500 /\ R.body.success = FALSE
      /\ R.body.error = Some("Internal server error")

\* The callback failed after the activity and the patch had succeeded.
C13_Witness ==
  /\ WebhookDone /\ Len(effects) = 3
  /\ effects[1].ok /\ effects[2].ok
  /\ effects[3].kind = "callback" /\ ~effects[3].ok

(***************************************************************************)
(* Properties of the parsers and of the range tests.                       *)
(***************************************************************************)
Called(op) == IsSome(request) /\ IsSome(response) /\ Val(request).op = op

\* The text of the call is a spelling of t.
Said(t) == IsSome(Val(request).text) /\ Val(Val(request).text) \in Spellings(t)

Range(from, to) == Some([from |-> from, to |-> to])

\* C14: parseCommissioningDate maps 'bis Y' to 1900-01-01..Y-12-31,
\* 'Inbetriebnahme Y' and 'Modernisierung Y' to Y-01-01..Y-12-31, 'ab MM/Y'
\* to Y-MM-01 without end, 'ab DD.MM.Y' to Y-MM-DD without end, 'DD.MM. bis
\* DD.MM.Y' and 'DD.MM. - DD.MM.Y' to the two dates in year Y, 'DD.MM.Y1 -
\* DD.MM.Y2' to the two full dates, and a text of no form to null; of two
\* forms that fit a text, the one tried first decides.
C14_DateForms ==
  Called("parseCommissioningDate") =>
    /\ \A p \in Prefixes, y \in Years :
         Said(BisText(p, y)) => R = Range(<<1900, 1, 1>>, Some(<<y, 12, 31>>))
    /\ \A k \in Keywords, y \in Years :
         Said(YearText(k, y)) => R = Range(<<y, 1, 1>>, Some(<<y, 12, 31>>))
    /\ \A p \in Prefixes, m \in Months, y \in Years :
         Said(AbMonthText(p, m, y)) => R = Range(<<y, m, 1>>, None)
    /\ \A p \in Prefixes, d \in Days, m \in Months, y \in Years :
         Said(AbDateText(p, d, m, y)) => R = Range(<<y, m, d>>, None)
    /\ \A a \in RangeStarts, b \in RangeEnds, y \in Years :
         /\ Said(BisRangeText(a[1], a[2], b[1], b[2], y))
              => R = Range(<<y, a[2], a[1]>>, Some(<<y, b[2], b[1]>>))
         /\ Said(DashRangeText(a[1], a[2], b[1], b[2], y))
              => R = Range(<<y, a[2], a[1]>>, Some(<<y, b[2], b[1]>>))
    /\ \A a \in RangeStarts, b \in RangeEnds, y1 \in Years, y2 \in Years :
         Said(CrossYearText(a[1], a[2], y1, b[1], b[2], y2))
           => R = Range(<<y1, a[2], a[1]>>, Some(<<y2, b[2], b[1]>>))
    /\ (~TruthyText(Val(request).text) \/ \E t \in OtherDateTexts : Said(t)) => R = None
    /\ Said(AbMonthText(<<>>, 1, 2017) \o <<" ">> \o BisText(<<>>, 2023))
         => R = Range(<<1900, 1, 1>>, Some(<<2023, 12, 31>>))
    /\ Said(DashRangeText(1, 1, 15, 5, 2004) \o <<" ">> \o BisText(<<>>, 2023))
         => R = Range(<<1900, 1, 1>>, Some(<<2023, 12, 31>>))
    /\ Said(AbMonthText(<<>>, 1, 2023) \o <<" ">> \o YearText(Inbetriebnahme, 2004))
         => R = Range(<<2004, 1, 1>>, Some(<<2004, 12, 31>>))

\* A text with "bis" after the keyword that the 'bis Y' form does not fit,
\* parsed as a range within one year.
C14_Witness ==
  /\ Called("parseCommissioningDate")
  /\ Val(request).text = Some(BisRangeText(30, 7, 31, 12, 2023))
  /\ R = Range(<<2023, 7, 30>>, Some(<<2023, 12, 31>>))

\* C15: for a month-range text 'MM-MM/YYYY' (after Inbetriebnahme or
\* Modernisierung) and for a single-month text 'MM/YYYY', the end date that
\* parseCommissioningDate emits is the last calendar day of the end month
\* in that year.
C15_LastDayOfMonth ==
  Called("parseCommissioningDate") =>
    /\ \A k \in Keywords, m1 \in 1..12, m2 \in 1..12, y \in Years :
         Said(MonthRangeText(k, m1, m2, y))
           => R = Range(<<y, m1, 1>>, Some(<<y, m2, DaysInMonth(y, m2)>>))
    /\ \A m \in 1..12, y \in Years :
         Said(SingleMonthText(m, y))
           => R = Range(<<y, m, 1>>, Some(<<y, m, DaysInMonth(y, m)>>))

\* The range an "at most" text stands for.
AtMost(kilowatts) == Range(0, Some(kilowatts))

AnyNumbers == WholeNumbers \cup CommaNumbers

\* C16: parsePowerRange reads a decimal comma as a decimal point and maps
\* 'F-T MW' and 'F - T MW' to F*1000..T*1000, 'F-T kW' and 'F - T kW' to
\* F..T, 'F kW - T MW' to F..T*1000, '> F MW' to F*1000 without upper
\* bound, '> F kW' to F without upper bound, '<= F kW' to 0..F, '<= F MW'
\* to 0..F*1000, and a bare single value and any other text to null.
C16_PowerForms ==
  Called("parsePowerRange") =>
    /\ \A f \in AnyNumbers, t \in AnyNumbers :
         (Said(RangeText(f.text, t.text, MW)) \/ Said(RangeSpaceText(f.text, t.text, MW)))
           => R = Range(f.thousandths, Some(t.thousandths))
    /\ \A f \in WholeNumbers, t \in WholeNumbers :
         (Said(RangeText(f.text, t.text, kW)) \/ Said(RangeSpaceText(f.text, t.text, kW)))
           => R = Range(f.thousandths \div 1000, Some(t.thousandths \div 1000))
    /\ \A f \in WholeNumbers, t \in AnyNumbers :
         Said(MixedRangeText(f.text, t.text))
           => R = Range(f.thousandths \div 1000, Some(t.thousandths))
    /\ \A f \in AnyNumbers : Said(GreaterText(f.text, MW)) => R = Range(f.thousandths, None)
    /\ \A f \in WholeNumbers :
         Said(GreaterText(f.text, kW)) => R = Range(f.thousandths \div 1000, None)
    /\ \A s \in AtMostSigns, f \in WholeNumbers :
         Said(AtMostText(s, f.text, kW)) => R = AtMost(f.thousandths \div 1000)
    /\ \A s \in AtMostSigns, f \in AnyNumbers :
         Said(AtMostText(s, f.text, MW)) => R = AtMost(f.thousandths)
    /\ (~TruthyText(Val(request).text) \/ \E t \in OtherPowerTexts : Said(t)) => R = None

\* C17: for a closed range [a, b] with a <= b, isDateInRange and
\* isPowerInRange answer true at a and at b and false one day (one kW)
\* below a and above b; for a range without upper bound they answer true
\* exactly for the values at or above a.
C17_InclusiveBounds ==
  /\ Called("isDateInRange") =>
       LET d == Val(request).isoDate
           a == Val(request).range.from
           to == Val(request).range.to
       IN  /\ (IsSome(to) /\ ~StrLt(Val(to), a)) =>
                /\ d \in {a, Val(to)} => R = TRUE
                /\ d \in {PrevDay(a), NextDay(Val(to))} => R = FALSE
           /\ to = None => R = ~StrLt(d, a)
  /\ Called("isPowerInRange") =>
       LET p == Val(request).powerKW
           a == Val(request).range.from
           to == Val(request).range.to
       IN  /\ (IsSome(to) /\ a <= Val(to)) =>
                /\ p \in {a, Val(to)} => R = TRUE
                /\ p \in {a - 1, Val(to) + 1} => R = FALSE
           /\ to = None => R = (p >= a)

(***************************************************************************)
(* Properties of the ingestion.                                            *)
(***************************************************************************)
\* The script has run; its records are in the log.
Populated == effects # <<>> /\ effects[1].kind = "populateData"

Emitted == effects[1].records

\* C18: every record the ingestion emits has commissioning_date_from <=
\* commissioning_date_to when both are present and power_output_from <=
\* power_output_to when both are present.
C18_RangesOrdered ==
  Populated =>
    \A i \in 1..Len(Emitted) :
      LET r == Emitted[i]
      IN  /\ (IsSome(r.commissioning_date_from) /\ IsSome(r.commissioning_date_to))
                => ~StrLt(Val(r.commissioning_date_to), Val(r.commissioning_date_from))
          /\ (IsSome(r.power_output_from) /\ IsSome(r.power_output_to))
                => Val(r.power_output_from) <= Val(r.power_output_to)

\* The commissioning text of the record is missing or of no form.
DateUnparsed(r) ==
  ~TruthyText(r.inbetriebnahme) \/ Val(r.inbetriebnahme) \in OtherDateTexts

\* The criteria text of the record is missing or of no form.
PowerUnparsed(r) ==
  ~TruthyText(r.weitereKriterien) \/ Val(r.weitereKriterien) \in OtherPowerTexts

\* The date q lies in the date range of the record, and within 365 days of
\* its start when the range has no end.
DateEligible(r, q) ==
  /\ IsSome(r.commissioning_date_from)
  /\ DaysBetween(Val(r.commissioning_date_from), q) >= 0
  /\ IF IsSome(r.commissioning_date_to)
     THEN DaysBetween(q, Val(r.commissioning_date_to)) >= 0
     ELSE DaysBetween(Val(r.commissioning_date_from), q) <= 365

\* C19: a record whose date text (criteria text) could not be parsed is
\* emitted without date range (power range); a lookup with only energyType
\* returns it; a lookup with commissioningDate (powerOutput) drops it; and a
\* lookup that filters on the other dimension only keeps it when its other
\* range fits.
C19_UnparsedRanges ==
  /\ Populated =>
       \A i \in 1..Len(Emitted) :
         /\ DateUnparsed(Emitted[i]) =>
              /\ Emitted[i].commissioning_date_from = None
              /\ Emitted[i].commissioning_date_to = None
         /\ PowerUnparsed(Emitted[i]) =>
              /\ Emitted[i].power_output_from = None
              /\ Emitted[i].power_output_to = None
  /\ (LookupDone /\ Resolved) =>
       \A r \in Elements(Answer) :
         /\ (~Given(P.commissioningDate) /\ ~Given(P.powerOutput)) => InResult(r)
         /\ (DateUnparsed(r) /\ Given(P.commissioningDate)) => ~InResult(r)
         /\ (PowerUnparsed(r) /\ Given(P.powerOutput)) => ~InResult(r)
         /\ (DateUnparsed(r) /\ OnlyPowerGiven
               /\ RangeContains(r, Val(parseFloat(Val(P.powerOutput))))) => InResult(r)
         /\ (PowerUnparsed(r) /\ OnlyDateGiven
               /\ DateEligible(r, Val(P.commissioningDate))) => InResult(r)

\* A lookup by power that keeps a record without date range and drops a
\* record without power range, both written by the script.
C19_Witness ==
  /\ LookupDone /\ Resolved /\ OnlyPowerGiven
  /\ \E r \in Elements(Answer) :
       DateUnparsed(r) /\ r.commissioning_date_from = None /\ InResult(r)
  /\ \E r \in Elements(Answer) :
       PowerUnparsed(r) /\ r.power_output_from = None /\ ~InResult(r)

\* The cell holds a character that is not a blank.
NonEmpty(cell) == IsSome(cell) /\ \E i \in 1..Len(Val(cell)) : Val(cell)[i] # " "

\* The row has a category code and an energy source.
Qualifies(entry) ==
  /\ entry # None
  /\ NonEmpty(Cell(Val(entry), 0))
  /\ NonEmpty(Cell(Val(entry), 1))

\* The rows from the fifth on.
FromFifth(jsonData) == [i \in 1..(IF Len(jsonData) > 4 THEN Len(jsonData) - 4 ELSE 0)
                          |-> jsonData[i + 4]]

\* C20: the ingestion emits one record for each row, from the fifth on,
\* that has a non-empty category code and a non-empty energy source, in the
\* order of the rows, skips the other rows, and keeps rows of equal key as
\* separate records.
C20_OneRecordPerRow ==
  Populated =>
    LET rows == SelectSeq(FromFifth(effects[1].jsonData), Qualifies)
    IN  /\ Len(Emitted) = Len(rows)
        /\ \A i \in 1..Len(rows) :
             /\ Emitted[i].sk = trim(Val(Cell(Val(rows[i]), 0)))
             /\ Emitted[i].pk = trim(Val(Cell(Val(rows[i]), 1)))
             /\ Emitted[i].inbetriebnahme = trimmed(Cell(Val(rows[i]), 2))
             /\ Emitted[i].weitereKriterien = trimmed(Cell(Val(rows[i]), 3))

\* Two records of the same key emitted around a skipped row, under a header
\* row that reads like a data row.
C20_Witness ==
  /\ Populated /\ Len(Emitted) = 2
  /\ Emitted[1].pk = Emitted[2].pk /\ Emitted[1].sk = Emitted[2].sk
  /\ Emitted[1] # Emitted[2]
  /\ Len(effects[1].jsonData) = 7
  /\ Qualifies(effects[1].jsonData[4])
  /\ ~Qualifies(effects[1].jsonData[6])

(***************************************************************************)
(* Properties of the batch loop of populateData.                           *)
(***************************************************************************)
Script == effects[1]

BatchRun == effects # <<>> /\ effects[1].kind = "populateData"

\* The items of the commands, one after another.
RECURSIVE ItemsOf(_)
ItemsOf(commands) ==
  IF commands = <<>> THEN <<>> ELSE Head(commands).items \o ItemsOf(Tail(commands))

Completed == BatchRun /\ Script.phase = "done"

\* C21: the commands sent hold the records in record order, each record
\* in exactly one command: at any time the items of the commands sent so
\* far are a prefix of the record list, and the whole list once the script
\* has completed.  No command holds more than 25 items or none, every
\* command but the last holds exactly 25, and a command is sent only when
\* every earlier one has settled.
C21_ConsecutiveChunks ==
  BatchRun =>
    /\ Len(ItemsOf(sends)) <= Len(Script.records)
    /\ ItemsOf(sends) = SubSeq(Script.records, 1, Len(ItemsOf(sends)))
    /\ Completed => ItemsOf(sends) = Script.records
    /\ \A n \in 1..Len(sends) :
         /\ Len(sends[n].items) \in 1..batchSize
         /\ n < Len(sends) => Len(sends[n].items) = batchSize
         /\ n < Len(sends) => sends[n].outcome # "pending"
    /\ (sends # <<>> /\ sends[Len(sends)].outcome = "pending") <=> Script.phase = "await"

\* Two full batches and a last one of one record have been sent, and the
\* first send failed.
C21_Witness ==
  /\ Completed
  /\ Len(Script.records) = 2 * batchSize + 1
  /\ Len(sends) = 3
  /\ Len(sends[3].items) = 1
  /\ sends[1].outcome = "failed"

\* C22: a failed write does not end the run.  Once the script has
\* completed, the commands sent are the ceil(n/25) batches of the n
\* records, each once and in order, whatever their outcomes; the script
\* never rejects; and every run reaches the end of the script.
C22_FailedChunkNotFatal ==
  /\ [](Completed =>
          /\ Len(sends) = (Len(Script.records) + batchSize - 1) \div batchSize
          /\ \A n \in 1..Len(sends) :
               /\ sends[n].items = Batch(Script.records, n)
               /\ sends[n].outcome \in {"ok", "failed"})
  /\ [](BatchRun => Script.phase # "failed")
  /\ (BatchRun ~> Completed)

\* The script completed after the first and the last of three writes had
\* failed; the table holds the second batch alone.
C22_Witness ==
  /\ Completed
  /\ Len(sends) = 3
  /\ sends[1].outcome = "failed"
  /\ sends[2].outcome = "ok"
  /\ sends[3].outcome = "failed"
  /\ store = sends[2].items

(***************************************************************************)
(* Properties of the three entry points together.                          *)
(***************************************************************************)
ErrorStrings ==
  { "energyType parameter is required", "Internal server error",
    "No body provided", "Missing x-epilot-token header" }

\* The error of the response in hand: the error field of the result of
\* lookupTariffs, or of the body of a handler's response.
ResponseError ==
  IF Val(request).op = "lookupTariffs" THEN Val(response).error
  ELSE Val(response).body.error

\* A call the invocation made was rejected: the query of the table, or a
\* call of the webhook handler to epilot.
StoreRejected == sends # <<>> /\ ~sends[1].ok

EffectRejected == effects # <<>> /\ ~effects[Len(effects)].ok

\* C23: whatever call fails inside, the error a caller sees is one of the
\* four fixed strings.  A response with an error is never a success, the
\* two handlers answer 200 exactly when there is no error, and a rejected
\* call shows as "Internal server error" and nothing else.
C23_FixedErrorStrings ==
  (IsSome(request) /\ IsSome(response)) =>
    /\ ResponseError = None \/ Val(ResponseError) \in ErrorStrings
    /\ Val(request).op = "lookupTariffs" =>
         /\ IsSome(ResponseError) => ~Val(response).found /\ Val(response).records = <<>>
         /\ StoreRejected => ResponseError = Some("Internal server error")
    /\ Val(request).op = "apiHandler" =>
         /\ Val(response).statusCode = 200 <=> ResponseError = None
         /\ IsSome(ResponseError) => ~Val(response).body.found
         /\ StoreRejected => ResponseError = Some("Internal server error")
    /\ Val(request).op = "webhook" =>
         /\ Val(response).statusCode = 200 <=> ResponseError = None
         /\ IsSome(ResponseError) <=> ~Val(response).body.success
         /\ EffectRejected => ResponseError = Some("Internal server error")

\* The webhook handler answered after the callback request had failed.
C23_Witness ==
  /\ IsSome(request) /\ IsSome(response) /\ Val(request).op = "webhook"
  /\ Len(effects) = 3 /\ effects[3].kind = "callback" /\ ~effects[3].ok
  /\ Val(response).statusCode = 500
  /\ ResponseError = Some("Internal server error")

(***************************************************************************)
(* Further properties of the two query paths.                              *)
(***************************************************************************)
\* C24: the record list of a GET /tariff response is the record list
\* lookupTariffs returns for the same table and the same energyType,
\* commissioningDate, powerOutput and criteria, in the same order; and the
\* list lookupTariffs returns, when no bezeichnung is given, is the list of
\* the GET /tariff response.
C24_PathsAgree ==
  /\ (ApiDone /\ Resolved) =>
       R.body.records =
         Some(lookupTariffs(store, [P EXCEPT !.bezeichnung = None], TRUE).records)
  /\ (LookupDone /\ Resolved /\ P.bezeichnung = None) =>
       Some(R.records) = apiHandler(store, P, TRUE).body.records

\* The number of times r occurs in the list q.
Count(q, r) == Cardinality({i \in 1..Len(q) : q[i] = r})

\* The list q holds no record more often than the list p does.
Within(q, p) == \A r \in Elements(q) : Count(q, r) <= Count(p, r)

\* The query with one filter parameter taken away.
Without(q, filter) ==
  CASE filter = "commissioningDate" -> [q EXCEPT !.commissioningDate = None]
    [] filter = "powerOutput" -> [q EXCEPT !.powerOutput = None]
    [] filter = "criteria" -> [q EXCEPT !.criteria = None]
    [] filter = "bezeichnung" -> [q EXCEPT !.bezeichnung = None]

FilterNames == {"commissioningDate", "powerOutput", "criteria", "bezeichnung"}

\* C28: every record lookupTariffs returns is a record of the table's
\* answer for the queried energy type, field for field, and occurs in the
\* result at most as often as in the answer; and the result of a query
\* holds no record more often than the result of the same query with one
\* of its filter parameters taken away.
C28_SelectsAndReorders ==
  (LookupDone /\ Resolved) =>
    /\ Elements(R.records) \subseteq Elements(Answer)
    /\ Within(R.records, Answer)
    /\ \A filter \in FilterNames :
         Within(R.records, lookupTariffs(store, Without(P, filter), TRUE).records)

\* A query with a date and a power filter returned some but not all records
\* of the answer, one of which the date filter alone would have kept too.
C28_Witness ==
  /\ LookupDone /\ Resolved
  /\ Given(P.commissioningDate) /\ Given(P.powerOutput)
  /\ R.records # <<>>
  /\ Len(R.records) < Len(lookupTariffs(store, Without(P, "powerOutput"), TRUE).records)
  /\ Len(R.records) < Len(lookupTariffs(store, Without(P, "commissioningDate"), TRUE).records)

(***************************************************************************)
(* Further properties of the webhook handler.                              *)
(***************************************************************************)
EffectOrder == <<"createActivity", "patchEntity", "callback">>

\* The query of the table the lookup made resolved, or the lookup made none.
LookupSucceeded == \A i \in 1..Len(sends) : sends[i].ok

\* C25: the lookup queries the table at most once, and the calls to epilot
\* are, in this order and each at most once, createActivity, patchEntity
\* and the callback request; the activity carries the list the lookup
\* returned, so the lookup came first; the patch is issued only when
\* createActivity succeeded and the callback only when the patch succeeded;
\* and a 200 response means the lookup and every call issued succeeded.
C25_EffectsInOrder ==
  WebhookDone =>
    /\ Len(sends) <= 1
    /\ Len(effects) <= 3
    /\ \A i \in 1..Len(effects) : effects[i].kind = EffectOrder[i]
    /\ effects # <<>> =>
         WebhookTariffs = lookupTariffs(store, webhookParams(WebhookEntity),
                                        LookupSucceeded).records
    /\ Len(effects) >= 2 => effects[1].ok
    /\ Len(effects) >= 3 => effects[2].ok
    /\ R.statusCode = 200 =>
         /\ \A i \in 1..Len(effects) : effects[i].ok
         /\ LookupSucceeded

\* The event passed the body and token checks and its body is JSON.
WebhookAccepted ==
  /\ WebhookDone
  /\ IsSome(Val(request).event.body) /\ TruthyText(Val(request).event.token)
  /\ Val(Val(request).event.body).json

\* lookupTariffs reported an error: the query of the table was rejected, or
\* the entity names no energy source and the lookup was refused.
LookupFailed ==
  /\ WebhookAccepted
  /\ StoreRejected \/ ~TruthyString(WebhookEntity.energietraeger)

RatesNull(data) ==
  /\ data.mieterstromzuschlag_ctkwh = None
  /\ data.ausfall_verguetung_in_ctkwh = None
  /\ data.anzulegender_wert_in_ctkwh = None
  /\ data.einspeise_verguetung_in_ctkwh = None

\* C26: an error of the lookup does not end the invocation.  The activity
\* is created, over an empty tariff list; when it succeeds the entity is
\* patched with the four rate fields null; when the patch succeeds and the
\* payload asks for it the callback is issued; and when every call issued
\* succeeded the answer is 200 with success = true.
C26_LookupErrorNotFatal ==
  LookupFailed =>
    /\ ActivityIssued /\ WebhookTariffs = <<>>
    /\ effects[1].ok => Patched /\ RatesNull(effects[2].data)
    /\ (Patched /\ effects[2].ok /\ CallbackRequested) => CallbackIssued
    /\ (\A i \in 1..Len(effects) : effects[i].ok) =>
         R.statusCode = 200 /\ R.body.success /\ R.body.error = None

\* The table rejected the query for an energy type it holds records of, and
\* the invocation went through to the callback and answered 200.
C26_Witness ==
  /\ LookupFailed /\ StoreRejected
  /\ Query(store, Val(WebhookEntity.energietraeger)) # <<>>
  /\ Len(effects) = 3 /\ effects[3].kind = "callback" /\ effects[3].ok
  /\ RatesNull(effects[2].data)
  /\ R.statusCode = 200 /\ R.body.success

\* The tariff whose rates the invocation writes to the entity.
WrittenTariff == bestTariff(WebhookTariffs, WebhookEntity.leistung_kw)

\* C27: over a non-empty tariff list, the designation in the output of the
\* activity is the designation of the tariff whose rates are written to
\* the entity, which is also the designation written to the entity.
C27_ActivityNamesBestMatch ==
  (ActivityIssued /\ WebhookTariffs # <<>>) =>
    /\ SameRates(effects[1].output.payload, WrittenTariff)
    /\ effects[1].output.bezeichnung = WrittenTariff.bezeichnung
    /\ IsSome(WrittenTariff.bezeichnung) =>
         effects[1].output.payload.bezeichnung = Some(effects[1].output.bezeichnung)

\* Nothing was asked of the table or of epilot.
NothingIssued == sends = <<>> /\ effects = <<>>

\* C30: an event without body is answered 400 "No body provided", whether
\* or not it carries a token; an event with a body and without the
\* x-epilot-token header is answered 401 "Missing x-epilot-token header";
\* and in both cases the invocation queries no table and calls neither
\* createActivity nor patchEntity nor the callback URL.
C30_RefusedEvents ==
  WebhookDone =>
    /\ Val(request).event.body = None =>
         /\ R = webhookResponse(400, FALSE, Some("No body provided"))
         /\ NothingIssued
    /\ (Val(request).event.body # None /\ Val(request).event.token = None) =>
         /\ R = webhookResponse(401, FALSE, Some("Missing x-epilot-token header"))
         /\ NothingIssued

\* An event with neither body nor token was answered 400 on a table that
\* holds records.
C30_Witness ==
  /\ WebhookDone /\ store # <<>>
  /\ Val(request).event.body = None /\ Val(request).event.token = None
  /\ R.statusCode = 400 /\ NothingIssued

(***************************************************************************)
(* Further properties of the ingestion.                                    *)
(***************************************************************************)
\* The cell holds a number: a non-empty text of digits.
HoldsNumber(cell) ==
  /\ IsSome(cell) /\ Val(cell) # <<>>
  /\ \A i \in 1..Len(Val(cell)) : IsDigit(Val(cell)[i])

\* The four rate fields of a record, each with the index of its cell.
RateFields(r) ==
  { <<r.einspeiseverguetung, 5>>, <<r.anzulegender_wert, 6>>,
    <<r.ausfallverguetung, 7>>, <<r.mieterstromzuschlag, 8>> }

\* C29: a rate field of an emitted record is the number its cell holds
\* whenever the cell holds a number, the number 0 included, and is absent
\* only when the cell holds none.
C29_RatesPreserved ==
  Populated =>
    LET rows == SelectSeq(FromFifth(effects[1].jsonData), Qualifies)
    IN  \A i \in 1..Len(Emitted) :
          \A f \in RateFields(Emitted[i]) :
            LET cell == Cell(Val(rows[i]), f[2])
            IN  /\ HoldsNumber(cell) => f[1] = Some(DecimalValue(Val(cell)))
                /\ f[1] = None => ~HoldsNumber(cell)

====
